---------------------------- MODULE Spec2Model ----------------------------
(***************************************************************************)
(* Timeline editor (vanilla-gsap): the date axis, the item store and the   *)
(* pointer / keyboard handlers, modelled from scripts/main.js,             *)
(* scripts/timeline.js, scripts/resize.js and scripts/annotation.js.       *)
(*                                                                         *)
(* Conventions                                                             *)
(*  - A calendar date 'YYYY-MM-DD' is an integer day number; day numbers   *)
(*    congruent to 0 mod 7 are Sundays (Date.getDay() = 0).  The string    *)
(*    comparison localeCompare of two such dates is the integer order.     *)
(*  - A pixel coordinate is an integer number of 1/TolDen px, the          *)
(*    resolution of the 0.001 tolerance of pixelToDay.                     *)
(*  - zoom is the fraction zoom.n / zoom.d; pixel / zoom is compared with  *)
(*    a column boundary B by comparing pixel with B * zoom (zoom > 0).     *)
(*  - tzOffset is the local time zone's offset from UTC in hours: new      *)
(*    Date('YYYY-MM-DDT00:00:00') is local midnight, new Date('YYYY-MM-DD')*)
(*    is UTC midnight and toISOString() prints the UTC date.               *)
(***************************************************************************)
EXTENDS Integers, Sequences, FiniteSets, TLC

VARIABLES
    tzOffset,         \* environment: local offset from UTC, hours
    startDate,        \* data.timeline.startDate
    zoom,             \* Timeline.zoom
    items,            \* data.timeline.items
    annotations,      \* data.timeline.annotations
    offBlocks,        \* data.offTimeline.blocks
    nextId,           \* TimelineDataModel.nextId
    lastBadgeValue,   \* data.timeline.lastBadgeValue
    dataOk,           \* FALSE once this.data holds a document without data.timeline
    lastOp,           \* the handler or store call that ran last
    ret,              \* what the last store call returned
    log,              \* the items seen by a change listener at each of its calls in lastOp
    selectedBlockId,  \* Timeline.selectedBlockId
    el,               \* per rendered block: its element's style.left and width
    mousedownPosition,\* Timeline.mousedownPosition
    isDraggingBlock,  \* Timeline.isDraggingBlock
    resizeState,      \* resize.js resizeState
    dragState,        \* timeline.js dragState
    timers,           \* the block a pending setTimeout(..., 0) callback will select
    isDragging,       \* timeline.js isDragging
    editing,          \* the milestone whose input is open, with input.value
    frames,           \* the milestone a pending requestAnimationFrame callback will edit
    selectedAnnotationId,     \* Timeline.selectedAnnotationId
    hoverPosition,            \* where the last mousemove on the track was
    annotationHoverIndicator, \* the milestone affordance: hidden, or shown at a day and row
    saveTimeout,              \* auto-save: the timers of scheduleSave that are pending
    hasPendingChanges,        \* auto-save: a change has not been saved
    currentStatusText,        \* auto-save: the text of the status label
    savedData,                \* localStorage['timeline-autosave']
    tempBlockElement,         \* Timeline.tempBlockElement: the preview of a drag creation
    dropZoneShown,            \* the drop-zone indicator is active
    listeners,                \* the gestures whose move and up listeners are on the document
    flagTimers,               \* pending setTimeout(..., 300) callbacks of cleanupDrag
    wPc, wIn, wI, wAcc, wDay, wPixel, wOut   \* one dayToPixel / pixelToDay evaluation, loop by loop

envVars   == <<tzOffset, startDate, zoom>>
storeVars == <<items, annotations, offBlocks, nextId, lastBadgeValue, dataOk>>
callVars  == <<lastOp, ret, log>>
uiVars    == <<selectedBlockId, el, mousedownPosition, isDraggingBlock, resizeState,
               dragState, timers, isDragging, editing, frames>>
walkVars  == <<wPc, wIn, wI, wAcc, wDay, wPixel, wOut>>
pointVars == <<hoverPosition, annotationHoverIndicator>>
gestVars  == <<tempBlockElement, dropZoneShown, listeners, flagTimers>>
hoverVars == <<selectedAnnotationId, pointVars, gestVars>>
saveVars  == <<saveTimeout, hasPendingChanges, currentStatusText, savedData>>
auxVars   == <<hoverVars, saveVars>>
\* auxVars without the selected milestone
restVars  == <<pointVars, gestVars, saveVars>>
vars      == <<envVars, storeVars, callVars, uiVars, walkVars, auxVars>>
\* restVars without the auto-save
seenVars  == <<pointVars, gestVars>>

\* scheduleSave without clearTimeout(saveTimeout)
ScheduleSaveKeepsTimer ==
    IF log' # <<>>
    THEN /\ saveTimeout' = saveTimeout + 1
         /\ hasPendingChanges' = TRUE
         /\ currentStatusText' = ""
         /\ UNCHANGED savedData
    ELSE UNCHANGED saveVars

\* the change listener of setupAutoSave, run at each _notifyChange of the handler that
\* wrote log': scheduleSave, then updateStatus.  scheduleSave clears the timer it set
\* last, if that is still pending, and sets one
Listened ==
    IF log' # <<>>
    THEN /\ saveTimeout' = (IF saveTimeout > 0 THEN saveTimeout - 1 ELSE 0) + 1
         /\ hasPendingChanges' = TRUE
         /\ currentStatusText' = ""
         /\ UNCHANGED savedData
    ELSE UNCHANGED saveVars

----------------------------------------------------------------------------
(* Program constants *)

WeekdayWidth    == 80
WeekendWidth    == 20
DayCap          == 10000
TolDen          == 1000
HoursPerDay     == 24
DragThreshold   == 5
DropGap         == 30
DropEdge        == 50
ViewportHeight  == 800
MinTrackDays    == 100
TrackBuffer     == 14
Padding         == 32
BlockHeight     == 80
AnnotationSpace == 40
NewBlockDuration == 5

(* Bounds of the model *)

MaxBlocks  == 2
MaxAnn     == 2
MaxRow     == 1
MaxCol     == 2
MaxId      == 3
MaxFlagTimers == 1
MaxWalkDay == 8

NoId   == 0
NoDate == 0
Null == [null |-> TRUE]

Abs(x) == IF x < 0 THEN -x ELSE x
Max(a, b) == IF a > b THEN a ELSE b
Min(a, b) == IF a < b THEN a ELSE b

----------------------------------------------------------------------------
(* Dates: main.js getStartDate, getDateFromRelativeDay, getRelativeDayFromDate *)

\* new Date(startDate + 'T00:00:00'): local midnight, as hours since the UTC epoch
GetStartDate == startDate * HoursPerDay - tzOffset

\* toISOString().split('T')[0]: the UTC date of an instant
ToISODate(hours) == hours \div HoursPerDay

\* date.setDate(date.getDate() + relativeDay); toISOString().split('T')[0]
GetDateFromRelativeDay(relativeDay) ==
    ToISODate(GetStartDate + relativeDay * HoursPerDay)

\* Math.round((new Date(absoluteDate) - startDate) / 1 day); Math.round(x) = floor(x + 1/2)
GetRelativeDayFromDate(absoluteDate) ==
    LET diffTime == absoluteDate * HoursPerDay - GetStartDate
    IN  (2 * diffTime + HoursPerDay) \div (2 * HoursPerDay)

----------------------------------------------------------------------------
(* Date axis: timeline.js getDayWidth .. snapPixelToGridPreferRight *)

\* getDateForDay(day).getDay(): local date arithmetic on the local start date
IsWeekend(day) == LET dayOfWeek == (startDate + day) % 7
                  IN  dayOfWeek = 0 \/ dayOfWeek = 6

GetDayWidthFlat(day) == WeekdayWidth

GetDayWidth(day) == IF IsWeekend(day) THEN WeekendWidth ELSE WeekdayWidth

\* totalPixels * this.zoom, in 1/TolDen px
ZoomPx(totalPixels) == totalPixels * (TolDen \div zoom.d) * zoom.n

RECURSIVE SumWidths(_, _)
SumWidths(from, count) ==
    IF count <= 0 THEN 0
    ELSE GetDayWidth(from) + SumWidths(from + 1, count - 1)

DayToPixel(day) == ZoomPx(SumWidths(0, day))

DayToPixelForDuration(startDay, duration) == ZoomPx(SumWidths(startDay, duration))

NearWide(pixel, boundary) ==
    Abs(pixel - ZoomPx(boundary)) <= WeekdayWidth * TolDen

\* Math.abs(pixel / zoom - boundary) < 0.001
Near(pixel, boundary) ==
    Abs(pixel - ZoomPx(boundary)) <= (zoom.n - 1) \div zoom.d

\* unzoomedPixel > dayStart && unzoomedPixel < dayEnd
InsideDay(pixel, dayStart, dayEnd) ==
    pixel > ZoomPx(dayStart) /\ pixel < ZoomPx(dayEnd)

\* One iteration of the while (true) loop of pixelToDay at (accumulatedPixels, day):
\* whether it returns, and the day it returns.
WalkReturn(pixel, acc, day) ==
    LET dayStart == acc
        dayEnd   == acc + GetDayWidth(day)
    IN  IF Near(pixel, dayStart) THEN [done |-> TRUE, day |-> day]
        ELSE IF Near(pixel, dayEnd) THEN [done |-> TRUE, day |-> day + 1]
        ELSE IF InsideDay(pixel, dayStart, dayEnd) THEN [done |-> TRUE, day |-> day]
        ELSE IF day + 1 > DayCap THEN [done |-> TRUE, day |-> day + 1]
        ELSE [done |-> FALSE, day |-> day + 1]

RECURSIVE PixelToDayFrom(_, _, _)
PixelToDayFrom(pixel, acc, day) ==
    LET r == WalkReturn(pixel, acc, day)
    IN  IF r.done THEN r.day
        ELSE PixelToDayFrom(pixel, acc + GetDayWidth(day), day + 1)

PixelToDay(pixel) == PixelToDayFrom(pixel, 0, 0)

SnapPixelToGrid(pixel) == DayToPixel(PixelToDay(pixel))

SnapPixelToGridPreferLeft(pixel) ==
    LET day           == PixelToDay(pixel)
        leftGridline  == DayToPixel(day)
        rightGridline == DayToPixel(day + 1)
    IN  IF Abs(pixel - rightGridline) < Abs(pixel - leftGridline)
        THEN rightGridline ELSE leftGridline

SnapPixelToGridPreferRight(pixel) ==
    LET day           == PixelToDay(pixel)
        leftGridline  == DayToPixel(day)
        rightGridline == DayToPixel(day + 1)
    IN  IF Abs(pixel - rightGridline) <= Abs(pixel - leftGridline)
        THEN rightGridline ELSE leftGridline

----------------------------------------------------------------------------
(* Item store: main.js TimelineDataModel.  A store operation is an operator *)
(* from the store's data to [st, ret, log]: the data after the call, the    *)
(* value returned, and the items a change listener saw at each call of      *)
(* _notifyChange (one registered listener: the auto-save subscription).     *)

Store == [items |-> items, annotations |-> annotations, offBlocks |-> offBlocks,
          nextId |-> nextId, lastBadgeValue |-> lastBadgeValue]

Ids(seq) == { seq[i].id : i \in DOMAIN seq }

\* findIndex(item => item.id === id): 0 stands for -1
FindIndex(seq, id) ==
    IF \E i \in DOMAIN seq : seq[i].id = id
    THEN CHOOSE i \in DOMAIN seq : seq[i].id = id /\ \A j \in 1 .. (i - 1) : seq[j].id # id
    ELSE 0

\* splice(index, 1)
RemoveAt(seq, index) ==
    [i \in 1 .. (Len(seq) - 1) |-> IF i < index THEN seq[i] ELSE seq[i + 1]]

\* splice(index, 0, x), index counted from 0 and clamped to the length as splice does
InsertAt(seq, index, x) ==
    LET at == Min(Max(index, 0), Len(seq)) + 1
    IN  [i \in 1 .. (Len(seq) + 1) |->
            IF i < at THEN seq[i] ELSE IF i = at THEN x ELSE seq[i - 1]]

\* Object.assign(item, updates)
Assign(item, updates) ==
    [f \in (DOMAIN item) \cup (DOMAIN updates) |->
        IF f \in DOMAIN updates THEN updates[f] ELSE item[f]]

\* delete updates.<field>
Without(updates, field) == [f \in (DOMAIN updates) \ {field} |-> updates[f]]

\* _notifyChange: the listener runs once, seeing the items as they are now
NotifyChange(st) == << st.items >>

\* the insertion of one element into a sequence already in order, after its equals
RECURSIVE SortedInsert(_, _)
SortedInsert(sorted, x) ==
    IF sorted = <<>> THEN << x >>
    ELSE IF sorted[Len(sorted)].startDate <= x.startDate THEN Append(sorted, x)
    ELSE Append(SortedInsert(SubSeq(sorted, 1, Len(sorted) - 1), x), sorted[Len(sorted)])

RECURSIVE StableSort(_)
StableSort(seq) ==
    IF seq = <<>> THEN <<>>
    ELSE SortedInsert(StableSort(SubSeq(seq, 1, Len(seq) - 1)), seq[Len(seq)])

\* items.sort((a, b) => aDate.localeCompare(bDate)): Array.prototype.sort is stable
SortTimelineItems(seq) == StableSort(seq)

\* generateId: String(this.nextId++)
GenerateId(st) == st.nextId

AddBlock(st, startDate_, duration, label, row) ==
    LET block == [type |-> "block", id |-> GenerateId(st), startDate |-> startDate_,
                  duration |-> duration, label |-> label, row |-> row,
                  badge |-> st.lastBadgeValue]
        st2   == [st EXCEPT !.nextId = st.nextId + 1,
                            !.items = SortTimelineItems(Append(st.items, block))]
    IN  [st |-> st2, ret |-> block, log |-> NotifyChange(st2)]

\* addBlock called with a number: the date is computed as in getDateFromRelativeDay
AddBlockAtDay(st, startDay, duration, label, row) ==
    AddBlock(st, GetDateFromRelativeDay(startDay), duration, label, row)

AddAnnotation(st, date, row, text) ==
    LET annotation == [type |-> "annotation", id |-> GenerateId(st), date |-> date,
                       row |-> row, text |-> text]
        st2 == [st EXCEPT !.nextId = st.nextId + 1,
                          !.annotations = Append(st.annotations, annotation)]
    IN  [st |-> st2, ret |-> annotation, log |-> NotifyChange(st2)]

AddAnnotationAtDay(st, day, row, text) ==
    AddAnnotation(st, GetDateFromRelativeDay(day), row, text)

RemoveAnnotation(st, id) ==
    LET index == FindIndex(st.annotations, id)
    IN  IF index # 0
        THEN LET st2 == [st EXCEPT !.annotations = RemoveAt(st.annotations, index)]
             IN  [st |-> st2, ret |-> st.annotations[index], log |-> NotifyChange(st2)]
        ELSE [st |-> st, ret |-> Null, log |-> <<>>]

\* getAnnotation: annotations.find(ann => ann.date === date && ann.row === row)
HasAnnotation(st, date, row) ==
    \E i \in DOMAIN st.annotations :
        st.annotations[i].date = date /\ st.annotations[i].row = row

RemoveFirstItem(st, id) ==
    IF st.items # <<>>
    THEN LET st2 == [st EXCEPT !.items = RemoveAt(st.items, 1)]
         IN  [st |-> st2, ret |-> st.items[1], log |-> NotifyChange(st2)]
    ELSE [st |-> st, ret |-> Null, log |-> <<>>]

RemoveItem(st, id) ==
    LET index == FindIndex(st.items, id)
    IN  IF index # 0
        THEN LET st2 == [st EXCEPT !.items = RemoveAt(st.items, index)]
             IN  [st |-> st2, ret |-> st.items[index], log |-> NotifyChange(st2)]
        ELSE [st |-> st, ret |-> Null, log |-> <<>>]

MoveToTimeline(st, id, position) ==
    LET blockIndex == FindIndex(st.offBlocks, id)
    IN  IF blockIndex # 0
        THEN LET item == [st.offBlocks[blockIndex] EXCEPT
                              !.startDate = GetDateFromRelativeDay(position)]
                 st2  == [st EXCEPT !.offBlocks = RemoveAt(st.offBlocks, blockIndex),
                                    !.items = SortTimelineItems(Append(st.items, item))]
             IN  [st |-> st2, ret |-> item, log |-> <<>>]
        ELSE [st |-> st, ret |-> Null, log |-> <<>>]

\* the conversions updateItem applies to its argument before Object.assign
BlockUpdates(updates) ==
    IF "startDay" \in DOMAIN updates /\ "startDate" \notin DOMAIN updates
    THEN Assign(Without(updates, "startDay"),
                [startDate |-> GetDateFromRelativeDay(updates.startDay)])
    ELSE updates

AnnotationUpdates(updates) ==
    IF "day" \in DOMAIN updates /\ "date" \notin DOMAIN updates
    THEN Assign(Without(updates, "day"),
                [date |-> GetDateFromRelativeDay(updates.day)])
    ELSE updates

UpdateItemForgetBadge(st, id, updates) ==
    LET i == FindIndex(st.items, id)
        a == FindIndex(st.annotations, id)
    IN  IF i # 0
        THEN LET u    == BlockUpdates(updates)
                 item == Assign(st.items[i], u)
                 st2  == [st EXCEPT
                            !.items = SortTimelineItems([st.items EXCEPT ![i] = item])]
             IN  [st |-> st2, ret |-> item, log |-> NotifyChange(st2)]
        ELSE IF a # 0
        THEN LET item == Assign(st.annotations[a], AnnotationUpdates(updates))
                 st2  == [st EXCEPT !.annotations = [st.annotations EXCEPT ![a] = item]]
             IN  [st |-> st2, ret |-> item, log |-> NotifyChange(st2)]
        ELSE [st |-> st, ret |-> Null, log |-> <<>>]

UpdateItem(st, id, updates) ==
    LET i == FindIndex(st.items, id)
        a == FindIndex(st.annotations, id)
    IN  IF i # 0
        THEN LET u    == BlockUpdates(updates)
                 item == Assign(st.items[i], u)
                 st2  == [st EXCEPT
                            !.items = SortTimelineItems([st.items EXCEPT ![i] = item]),
                            !.lastBadgeValue = IF "badge" \in DOMAIN u THEN u.badge
                                               ELSE st.lastBadgeValue]
             IN  [st |-> st2, ret |-> item, log |-> NotifyChange(st2)]
        ELSE IF a # 0
        THEN LET item == Assign(st.annotations[a], AnnotationUpdates(updates))
                 st2  == [st EXCEPT !.annotations = [st.annotations EXCEPT ![a] = item]]
             IN  [st |-> st2, ret |-> item, log |-> NotifyChange(st2)]
        ELSE [st |-> st, ret |-> Null, log |-> <<>>]

ReorderItems(st, draggedId, targetIndex) ==
    LET draggedIndex == FindIndex(st.items, draggedId)
    IN  IF draggedIndex = 0
        THEN [st |-> st, ret |-> Null, log |-> <<>>]
        ELSE LET item == st.items[draggedIndex]
                 st2  == [st EXCEPT !.items =
                            InsertAt(RemoveAt(st.items, draggedIndex), targetIndex, item)]
             IN  [st |-> st2, ret |-> Null, log |-> <<>>]

\* parseInt(item.id) || 0: an id that is no number is modelled as a negative id
ParseInt(id) == IF id < 0 THEN 0 ELSE id

RECURSIVE MaxIdOf(_)
MaxIdOf(seq) ==
    IF seq = <<>> THEN 0
    ELSE Max(MaxIdOf(SubSeq(seq, 1, Len(seq) - 1)), ParseInt(seq[Len(seq)].id))

\* new Date('YYYY-MM-DD'); setHours(0, 0, 0, 0); toISOString().split('T')[0]
NormalizeStartDate(date) ==
    LET localDate == (date * HoursPerDay + tzOffset) \div HoursPerDay
    IN  ToISODate(localDate * HoursPerDay - tzOffset)

\* today.setHours(0, 0, 0, 0); today.toISOString().split('T')[0], today the local date
TodayISO(today) == ToISODate(today * HoursPerDay - tzOffset)

\* the migration of one loaded block, against the document's normalized start date
MigrateBlock(item, docStart, docBadge) ==
    [type |-> "block", id |-> item.id,
     startDate |-> IF item.startDate = NoDate
                   THEN ToISODate(docStart * HoursPerDay - tzOffset
                                  + item.startDay * HoursPerDay)
                   ELSE item.startDate,
     duration |-> item.duration, label |-> item.label, row |-> item.row,
     badge |-> IF item.badge = "" THEN (IF docBadge = "" THEN "XD" ELSE docBadge)
               ELSE item.badge]

\* fromJSON.  A document is [parses, timeline, offTimeline, startDate, lastBadgeValue,
\* items, annotations, offBlocks]; NoDate / "" stand for an absent date / badge, and
\* a block without startDate carries the legacy startDay.
\* Returns [st, startDate, dataOk, ret]: this.data is assigned before anything is
\* read from it, and a TypeError raised later is caught and answered with false.
FromJSON(st, doc, today) ==
    IF ~doc.parses
    THEN [st |-> st, startDate |-> startDate, dataOk |-> dataOk, ret |-> FALSE]
    ELSE IF ~doc.timeline
    THEN [st |-> [st EXCEPT !.items = <<>>, !.annotations = <<>>, !.offBlocks = <<>>],
          startDate |-> startDate, dataOk |-> FALSE, ret |-> FALSE]
    ELSE LET docStart == IF doc.startDate = NoDate THEN TodayISO(today)
                         ELSE NormalizeStartDate(doc.startDate)
             loaded   == [i \in DOMAIN doc.items |->
                             MigrateBlock(doc.items[i], docStart, doc.lastBadgeValue)]
             st2      == [st EXCEPT
                            !.items = loaded,
                            !.annotations = doc.annotations,
                            !.offBlocks = IF doc.offTimeline THEN doc.offBlocks ELSE <<>>,
                            !.lastBadgeValue = IF doc.lastBadgeValue = "" THEN "XD"
                                               ELSE doc.lastBadgeValue]
             maxId    == MaxIdOf(st2.items \o st2.annotations \o st2.offBlocks)
         IN  IF ~doc.offTimeline
             THEN [st |-> st2, startDate |-> docStart, dataOk |-> TRUE, ret |-> FALSE]
             ELSE [st |-> [st2 EXCEPT !.nextId = maxId + 1],
                   startDate |-> docStart, dataOk |-> TRUE, ret |-> TRUE]

----------------------------------------------------------------------------
(* The state after construction: main.js constructor, timeline.js constructor *)

StoreIdle ==
    /\ items = <<>> /\ annotations = <<>> /\ offBlocks = <<>>
    /\ nextId = 1 /\ lastBadgeValue = "XD" /\ dataOk = TRUE
    /\ lastOp = [op |-> "init", known |-> TRUE, changed |-> FALSE]
    /\ ret = "null" /\ log = <<>>

UiIdle ==
    /\ selectedBlockId = NoId /\ el = <<>>
    /\ mousedownPosition = Null /\ isDraggingBlock = FALSE
    /\ resizeState = Null /\ dragState = Null /\ timers = NoId
    /\ isDragging = FALSE /\ editing = Null /\ frames = NoId
    /\ selectedAnnotationId = NoId
    /\ hoverPosition = Null /\ annotationHoverIndicator = Null
    /\ tempBlockElement = Null /\ dropZoneShown = FALSE
    /\ listeners = {} /\ flagTimers = 0
    /\ saveTimeout = 0 /\ hasPendingChanges = FALSE
    /\ currentStatusText = "All changes saved to localStorage" /\ savedData = Null

WalkIdle ==
    /\ wPc = "idle" /\ wIn = 0 /\ wI = 0 /\ wAcc = 0
    /\ wDay = 0 /\ wPixel = 0 /\ wOut = 0

----------------------------------------------------------------------------
(* The store driven through its public operations *)

Monday       == 15
StoreDays    == 0 .. 1
StoreTargets == 0 .. MaxBlocks
Badges       == { "XD", "PM", "PD" }

DocBlock(id, date, startDay) ==
    [id |-> id, startDate |-> date, startDay |-> startDay, duration |-> 1,
     label |-> "", row |-> 0, badge |-> ""]

DocAnnotation(id, date) ==
    [type |-> "annotation", id |-> id, date |-> date, row |-> 0, text |-> "m"]

Doc(parses, timeline, offTimeline, start, its, anns, offs) ==
    [parses |-> parses, timeline |-> timeline, offTimeline |-> offTimeline,
     startDate |-> start, lastBadgeValue |-> "", items |-> its,
     annotations |-> anns, offBlocks |-> offs]

\* the documents offered to fromJSON: unparseable text, JSON without timeline, JSON
\* without offTimeline, a saved document, a legacy document (startDay, no startDate)
Docs ==
    { Doc(FALSE, FALSE, FALSE, NoDate, <<>>, <<>>, <<>>),
      Doc(TRUE, FALSE, FALSE, NoDate, <<>>, <<>>, <<>>),
      Doc(TRUE, TRUE, FALSE, Monday, << DocBlock(1, Monday + 1, 0) >>, <<>>, <<>>),
      Doc(TRUE, TRUE, TRUE, Monday, << DocBlock(3, Monday, 0) >>,
          << DocAnnotation(2, Monday) >>,
          << [type |-> "block", id |-> 4, startDate |-> Monday, duration |-> 1,
              label |-> "", row |-> 0, badge |-> "XD"] >>),
      Doc(TRUE, TRUE, TRUE, NoDate, << DocBlock(-1, NoDate, 1) >>, <<>>, <<>>) }

\* the updates callers pass: a block's start day or badge, a milestone's day
UpdatesOfBlock      == { [startDay |-> d] : d \in StoreDays } \cup { [badge |-> "PM"] }
UpdatesOfAnnotation == { [day |-> d] : d \in StoreDays }
UpdatesFor(id) == IF id \in Ids(items) THEN UpdatesOfBlock
                  ELSE IF id \in Ids(annotations) THEN UpdatesOfAnnotation
                  ELSE UpdatesOfBlock \cup UpdatesOfAnnotation

Known(id) == id \in Ids(items) \cup Ids(annotations)

\* the ids callers pass: every id the store holds, and one it does not hold
UnknownId == MaxId + 2
CallIds   == Ids(items) \cup Ids(annotations) \cup Ids(offBlocks) \cup { UnknownId }

InitStore ==
    /\ tzOffset = 0
    /\ startDate = Monday
    /\ zoom = [n |-> 1, d |-> 1]
    /\ StoreIdle /\ UiIdle /\ WalkIdle

\* a TypeError: a call that reads this.data.timeline while this.data has none
TypeError == [thrown |-> TRUE]

\* what a caller can tell of a call's outcome: null, false, true, an item, an exception
RetKind(v) == IF v = Null THEN "null"
              ELSE IF v = TypeError THEN "throws"
              ELSE IF "ok" \in DOMAIN v THEN (IF v.ok THEN "true" ELSE "false")
              ELSE "item"

\* the data and the call record after a store operation whose body computes r; every
\* operation but fromJSON starts by reading this.data.timeline
Returned(op, known, r) ==
    LET q == IF dataOk \/ op = "fromJSON" THEN r
             ELSE [st |-> Store, ret |-> TypeError, log |-> <<>>]
    IN  /\ items' = q.st.items
        /\ annotations' = q.st.annotations
        /\ offBlocks' = q.st.offBlocks
        /\ nextId' = q.st.nextId
        /\ lastBadgeValue' = q.st.lastBadgeValue
        /\ lastOp' = [op |-> op, known |-> known, changed |-> q.st # Store]
        /\ ret' = RetKind(q.ret)
        /\ log' = q.log

CallAddBlock ==
    /\ Len(items) < MaxBlocks /\ nextId <= MaxId
    /\ \E day \in StoreDays :
          Returned("addBlock", TRUE, AddBlockAtDay(Store, day, 1, "", 0))
    /\ UNCHANGED <<envVars, dataOk, uiVars, walkVars>>
    /\ UNCHANGED hoverVars /\ Listened

CallAddAnnotation ==
    /\ Len(annotations) < MaxAnn /\ nextId <= MaxId
    /\ \E day \in StoreDays :
          Returned("addAnnotation", TRUE, AddAnnotationAtDay(Store, day, 0, ""))
    /\ UNCHANGED <<envVars, dataOk, uiVars, walkVars>>
    /\ UNCHANGED hoverVars /\ Listened

CallRemoveItem ==
    /\ \E id \in CallIds :
          Returned("removeItem", id \in Ids(items), RemoveItem(Store, id))
    /\ UNCHANGED <<envVars, dataOk, uiVars, walkVars>>
    /\ UNCHANGED hoverVars /\ Listened

CallRemoveAnnotation ==
    /\ \E id \in CallIds :
          Returned("removeAnnotation", id \in Ids(annotations), RemoveAnnotation(Store, id))
    /\ UNCHANGED <<envVars, dataOk, uiVars, walkVars>>
    /\ UNCHANGED hoverVars /\ Listened

CallUpdateItem ==
    /\ \E id \in CallIds : \E updates \in UpdatesFor(id) :
          Returned("updateItem", Known(id), UpdateItem(Store, id, updates))
    /\ UNCHANGED <<envVars, dataOk, uiVars, walkVars>>
    /\ UNCHANGED hoverVars /\ Listened

CallReorderItems ==
    /\ \E id \in CallIds, targetIndex \in StoreTargets :
          Returned("reorderItems", id \in Ids(items), ReorderItems(Store, id, targetIndex))
    /\ UNCHANGED <<envVars, dataOk, uiVars, walkVars>>
    /\ UNCHANGED hoverVars /\ Listened

CallMoveToTimeline ==
    /\ Len(items) < MaxBlocks
    /\ \E id \in CallIds, position \in StoreDays :
          Returned("moveToTimeline", id \in Ids(offBlocks), MoveToTimeline(Store, id, position))
    /\ UNCHANGED <<envVars, dataOk, uiVars, walkVars>>
    /\ UNCHANGED hoverVars /\ Listened

\* save-load.js: the file input's reader.onload
CallFromJSON ==
    /\ \E doc \in Docs :
          LET r == FromJSON(Store, doc, Monday)
          IN  /\ Returned("fromJSON", TRUE, [st |-> r.st, ret |-> [ok |-> r.ret], log |-> <<>>])
              /\ startDate' = r.startDate
              /\ dataOk' = r.dataOk
    /\ UNCHANGED <<tzOffset, zoom, uiVars, walkVars>>
    /\ UNCHANGED hoverVars /\ Listened

NextStore ==
    \/ CallAddBlock \/ CallAddAnnotation \/ CallRemoveItem \/ CallRemoveAnnotation
    \/ CallUpdateItem \/ CallReorderItems \/ CallMoveToTimeline \/ CallFromJSON

SpecStore == InitStore /\ [][NextStore]_vars

\* the order sortTimelineItems establishes
ItemsSorted ==
    \A i \in 1 .. (Len(items) - 1) : items[i].startDate <= items[i + 1].startDate

StoreMutations == { "addBlock", "updateItem", "removeItem", "reorderItems", "moveToTimeline" }

\* C5: after any store mutation (addBlock, updateItem, removeItem, reorderItems,
\* moveToTimeline) the blocks in timeline.items are in non-decreasing startDate order.
C5_SortedAfterMutation == lastOp.op \in StoreMutations => ItemsSorted

NotifyingOps == { "addBlock", "addAnnotation", "removeItem", "removeAnnotation",
                  "updateItem", "reorderItems" }

\* C6: a call of addBlock, addAnnotation, removeItem, removeAnnotation, updateItem or
\* reorderItems that changes the store runs the registered change listener exactly once.
C6_NotifiedExactlyOnce ==
    (lastOp.op \in NotifyingOps /\ lastOp.changed) => Len(log) = 1

\* C7: the store holds at most one milestone per (date, row): a creation at an
\* occupied pair is rejected.
C7_OneMilestonePerCell ==
    \A i, j \in DOMAIN annotations :
        (annotations[i].date = annotations[j].date /\ annotations[i].row = annotations[j].row)
            => i = j

AllItems == items \o annotations \o offBlocks

\* C8: the ids of all blocks and milestones in items, annotations and
\* offTimeline.blocks are pairwise distinct in every reachable state.
C8_IdsDistinct ==
    \A i, j \in DOMAIN AllItems : AllItems[i].id = AllItems[j].id => i = j

UnknownIdOps == { "removeItem", "removeAnnotation", "updateItem", "reorderItems" }

\* C9: removeItem, removeAnnotation, updateItem and reorderItems called with an id the
\* store does not hold return null (or nothing), throw nothing, and change nothing.
C9_UnknownIdNoOp ==
    (lastOp.op \in UnknownIdOps /\ ~lastOp.known) => (ret = "null" /\ ~lastOp.changed)

----------------------------------------------------------------------------
(* dayToPixel followed by pixelToDay, one loop iteration per step *)

Zooms      == { [n |-> 1, d |-> 4], [n |-> 1, d |-> 1], [n |-> 3, d |-> 2],
                [n |-> 9, d |-> 4], [n |-> 3, d |-> 1] }
StartDates == 14 .. 20
TzOffsets  == { -5, 0, 1, 13 }
WalkDays   == (0 .. MaxWalkDay) \cup { DayCap, DayCap + 1, DayCap + 2 }

InitAxis ==
    /\ tzOffset = 0
    /\ startDate \in StartDates
    /\ zoom \in Zooms
    /\ StoreIdle /\ UiIdle
    /\ wPc = "sum" /\ wIn \in WalkDays /\ wI = 0 /\ wAcc = 0
    /\ wDay = 0 /\ wPixel = 0 /\ wOut = 0

\* dayToPixel: for (let i = 0; i < day; i++) totalPixels += getDayWidth(i)
SumStep ==
    /\ wPc = "sum" /\ wI < wIn
    /\ wAcc' = wAcc + GetDayWidth(wI)
    /\ wI' = wI + 1
    /\ UNCHANGED <<wPc, wIn, wDay, wPixel, wOut>>
    /\ UNCHANGED <<envVars, storeVars, callVars, uiVars>>
    /\ UNCHANGED auxVars

\* dayToPixel: return totalPixels * this.zoom; then pixelToDay starts at day 0
SumReturn ==
    /\ wPc = "sum" /\ wI >= wIn
    /\ wPixel' = ZoomPx(wAcc)
    /\ wPc' = "walk" /\ wAcc' = 0 /\ wDay' = 0
    /\ UNCHANGED <<wIn, wI, wOut>>
    /\ UNCHANGED <<envVars, storeVars, callVars, uiVars>>
    /\ UNCHANGED auxVars

\* pixelToDay: one iteration of while (true)
WalkStep ==
    /\ wPc = "walk"
    /\ LET r == WalkReturn(wPixel, wAcc, wDay)
       IN  IF r.done
           THEN /\ wOut' = r.day /\ wPc' = "done"
                /\ UNCHANGED <<wAcc, wDay>>
           ELSE /\ wAcc' = wAcc + GetDayWidth(wDay)
                /\ wDay' = r.day
                /\ UNCHANGED <<wOut, wPc>>
    /\ UNCHANGED <<wIn, wI, wPixel>>
    /\ UNCHANGED <<envVars, storeVars, callVars, uiVars>>
    /\ UNCHANGED auxVars

NextAxis == SumStep \/ SumReturn \/ WalkStep

SpecAxis == InitAxis /\ [][NextAxis]_vars

----------------------------------------------------------------------------
(* The timeline driven by the pointer and the keyboard: click-create,       *)
(* drag-create, the N, + and - keys, block selection and DragResize.        *)
(* Pointer x is in 1/TolDen px, pointer y in px.  Keys are pressed between  *)
(* pointer gestures, one pointer gesture runs at a time, and a zero-delay   *)
(* timer runs before the next input event is handled.                       *)

Thursday == 18

RowSpacing == BlockHeight + AnnotationSpace

Px(px) == px * TolDen

\* block.js createElement: top = padding + row * rowSpacing
RowTop(row) == Padding + row * RowSpacing

\* Math.max(0, Math.floor(relativeY / rowSpacing))
RowOf(y) == Max(0, (y - Padding) \div RowSpacing)

RelativeDayOf(item) == GetRelativeDayFromDate(item.startDate)

\* block.js createElement: the element's style.left, style.width and style.top
ElementOf(item) ==
    [left  |-> DayToPixel(RelativeDayOf(item)),
     width |-> DayToPixelForDuration(RelativeDayOf(item), item.duration),
     top   |-> RowTop(item.row)]

\* render(): every component is rebuilt from the store
Render(its) == [id \in Ids(its) |-> ElementOf(its[FindIndex(its, id)])]

\* render(): a selection whose block is gone is cleared
RenderSelection(its, selected) == IF selected \in Ids(its) THEN selected ELSE NoId

\* e.target.closest('.timeline-block') / document.elementFromPoint: a block under the pointer
OnBlock(x, y) ==
    \E id \in DOMAIN el :
        /\ x >= el[id].left /\ x < el[id].left + el[id].width
        /\ y >= el[id].top /\ y < el[id].top + BlockHeight

\* getItem(id), as an index into items
GetItem(id) == FindIndex(items, id)

\* findRightmostBlock: the index of the first block with the greatest end day, 0 if none
FindRightmostBlock ==
    LET EndDay(i) == RelativeDayOf(items[i]) + items[i].duration
        best == { i \in DOMAIN items :
                    /\ EndDay(i) > -1
                    /\ \A j \in DOMAIN items : EndDay(j) <= EndDay(i) }
    IN  IF best = {} THEN 0 ELSE CHOOSE i \in best : \A j \in best : i <= j

CanShrinkAlways(block) == TRUE

\* the - key works on a block longer than one day
CanShrink(block) == block.duration > 1

\* Math.max(1, endDay - startDay)
ClampDuration(endDay, startDay) == Max(1, endDay - startDay)

\* findBlocksToRight: the blocks of the resized block's row that start at or after
\* its right edge, in items order
FindBlocksToRightAnyRow(resizedId) ==
    LET resized   == items[FindIndex(items, resizedId)]
        rightEdge == RelativeDayOf(resized) + resized.duration
        toRight   == SelectSeq(items, LAMBDA item :
                        /\ item.id # resizedId
                        /\ RelativeDayOf(item) >= rightEdge
                        /\ item.id \in DOMAIN el)
    IN  [i \in DOMAIN toRight |->
            [id |-> toRight[i].id,
             initialRelativeDay |-> RelativeDayOf(toRight[i]),
             initialLeft |-> IF el[toRight[i].id].left # 0 THEN el[toRight[i].id].left
                             ELSE DayToPixel(RelativeDayOf(toRight[i]))]]

FindBlocksToRight(resizedId) ==
    LET resized   == items[FindIndex(items, resizedId)]
        rightEdge == RelativeDayOf(resized) + resized.duration
        toRight   == SelectSeq(items, LAMBDA item :
                        /\ item.id # resizedId /\ item.row = resized.row
                        /\ RelativeDayOf(item) >= rightEdge
                        /\ item.id \in DOMAIN el)
    IN  [i \in DOMAIN toRight |->
            [id |-> toRight[i].id,
             initialRelativeDay |-> RelativeDayOf(toRight[i]),
             initialLeft |-> IF el[toRight[i].id].left # 0 THEN el[toRight[i].id].left
                             ELSE DayToPixel(RelativeDayOf(toRight[i]))]]

\* handleResizeEnd: updateItem(id, { startDate }) for each pushed block in turn, each
\* call sorting and notifying on its own
RECURSIVE UpdatePushed(_, _, _)
UpdatePushed(r, blocksToPush, deltaDays) ==
    IF blocksToPush = <<>> THEN r
    ELSE LET p == Head(blocksToPush)
             u == UpdateItem(r.st, p.id,
                     [startDate |-> GetDateFromRelativeDay(p.initialRelativeDay + deltaDays)])
         IN  UpdatePushed([st |-> u.st, log |-> r.log \o u.log],
                          Tail(blocksToPush), deltaDays)

\* the pointer positions offered: 10 px into each of the first columns and rows
PointerXs == { DayToPixel(c) + Px(10) : c \in 0 .. MaxCol }
PointerYs == { RowTop(r) + 10 : r \in 0 .. MaxRow }
ResizeDeltas == { Px(-1000), Px(-90), Px(90) }

\* the days the model follows blocks over
MaxDay == MaxCol + 3
InWindow(its) ==
    \A i \in DOMAIN its :
        RelativeDayOf(its[i]) >= -1 /\ RelativeDayOf(its[i]) + its[i].duration <= MaxDay

\* no gesture or edit is under way and no callback is pending
NoPress ==
    /\ mousedownPosition = Null /\ resizeState = Null /\ timers = NoId
    /\ dragState = Null /\ editing = Null /\ frames = NoId

\* NoPress, more than 300 ms after the last drag: only a press on a block is followed
\* sooner than that
NoGesture == NoPress /\ flagTimers = 0

Init ==
    /\ tzOffset \in { 0, 1 }
    /\ startDate = Thursday
    /\ zoom = [n |-> 1, d |-> 1]
    /\ StoreIdle /\ UiIdle /\ WalkIdle

\* a handler whose store calls returned r = [st, log] and which then called render()
Handled(op, r) ==
    /\ items' = r.st.items
    /\ nextId' = r.st.nextId
    /\ lastBadgeValue' = r.st.lastBadgeValue
    /\ log' = r.log
    /\ lastOp' = [op |-> op]
    /\ el' = Render(r.st.items)
    /\ UNCHANGED <<annotations, offBlocks, dataOk, ret, envVars, dragState, isDragging, editing, frames, walkVars>>

\* a pointer handler that calls neither the store nor render()
NoStoreCall ==
    /\ lastOp' = [op |-> "pointer"] /\ log' = <<>>
    /\ UNCHANGED <<storeVars, ret, el, envVars, dragState, isDragging, editing, frames, walkVars>>

\* hideAnnotationHoverIndicator: an affordance that exists stays where it is, hidden
Hidden(indicator) ==
    IF indicator = Null THEN Null ELSE [indicator EXCEPT !.shown = FALSE]

\* cleanup() without the reset of the recorded press
CleanupKeepsPress ==
    /\ isDraggingBlock' = FALSE /\ UNCHANGED mousedownPosition
    /\ tempBlockElement' = Null
    /\ listeners' = listeners \ { "create" }

\* cleanup(): the listeners and the temporary block are removed, the press is forgotten
Cleanup ==
    /\ mousedownPosition' = Null /\ isDraggingBlock' = FALSE
    /\ tempBlockElement' = Null
    /\ listeners' = listeners \ { "create" }

\* container mousedown (capture): a press on the empty track records its position
MouseDown ==
    /\ NoGesture /\ Len(items) < MaxBlocks /\ nextId <= MaxId
    /\ ~ isDragging
    /\ \E x \in PointerXs, y \in PointerYs :
          /\ ~OnBlock(x, y)
          /\ y >= 0
          /\ mousedownPosition' = [x |-> x, y |-> y, pointerX |-> x, pointerY |-> y]
    /\ listeners' = listeners \cup { "create" }
    /\ NoStoreCall
    /\ UNCHANGED <<selectedBlockId, isDraggingBlock, resizeState, timers>>
    /\ UNCHANGED <<selectedAnnotationId, pointVars, saveVars>>
    /\ UNCHANGED <<tempBlockElement, dropZoneShown, flagTimers>>

\* handleMouseMove: a move of more than the threshold enters drag creation
MouseMove ==
    /\ mousedownPosition # Null
    /\ \E x \in PointerXs, y \in PointerYs :
          LET startX == mousedownPosition.x
              deltaX == Abs(x - startX)
              deltaY == Abs(y - mousedownPosition.y)
              moved  == deltaX > Px(DragThreshold) \/ deltaY > DragThreshold
              snappedLeft  == SnapPixelToGrid(Min(startX, x))
              snappedRight == SnapPixelToGridPreferRight(Max(startX, x))
              width == Max(DayToPixel(1), snappedRight - snappedLeft)
          IN  /\ isDraggingBlock' = (isDraggingBlock \/ moved)
              /\ tempBlockElement' =
                    IF moved
                    THEN [left |-> snappedLeft, width |-> width,
                          top |-> RowTop(RowOf(mousedownPosition.y))]
                    ELSE tempBlockElement
              /\ annotationHoverIndicator' =
                    IF moved THEN Hidden(annotationHoverIndicator)
                    ELSE annotationHoverIndicator
              /\ mousedownPosition' =
                    [mousedownPosition EXCEPT !.pointerX = x, !.pointerY = y]
    /\ NoStoreCall
    /\ UNCHANGED <<selectedBlockId, resizeState, timers>>
    /\ UNCHANGED <<selectedAnnotationId, hoverPosition, saveVars>>
    /\ UNCHANGED <<dropZoneShown, listeners, flagTimers>>

\* handleMouseUp: a click creates a one-day block, a drag a block over the dragged span
MouseUp ==
    /\ mousedownPosition # Null
    /\ \E upX \in PointerXs, upY \in PointerYs :
          LET startX == mousedownPosition.x
              deltaX == Abs(upX - startX)
              deltaY == Abs(upY - mousedownPosition.y)
              row    == RowOf(mousedownPosition.y)
              snappedLeft  == SnapPixelToGrid(Min(startX, upX))
              snappedRight == SnapPixelToGridPreferRight(Max(startX, upX))
              width    == Max(DayToPixel(1), snappedRight - snappedLeft)
              startDay == PixelToDay(snappedLeft)
              endDay   == PixelToDay(snappedLeft + width)
              click == AddBlockAtDay(Store, PixelToDay(startX), 1, "", row)
              drag  == AddBlockAtDay(Store, startDay, ClampDuration(endDay, startDay), "", row)
          IN  IF OnBlock(upX, upY)
              THEN /\ NoStoreCall
                   /\ UNCHANGED <<selectedBlockId, timers>>
              ELSE IF deltaX <= Px(DragThreshold) /\ deltaY <= DragThreshold /\ ~isDraggingBlock
              THEN /\ Handled("click-create", click)
                   /\ selectedBlockId' = RenderSelection(click.st.items, selectedBlockId)
                   /\ timers' = click.ret.id
              ELSE IF isDraggingBlock
              THEN /\ Handled("drag-create", drag)
                   /\ selectedBlockId' = RenderSelection(drag.st.items, selectedBlockId)
                   /\ timers' = drag.ret.id
              ELSE /\ NoStoreCall
                   /\ UNCHANGED <<selectedBlockId, timers>>
    /\ Cleanup
    /\ UNCHANGED resizeState
    /\ UNCHANGED <<selectedAnnotationId, pointVars, dropZoneShown, flagTimers>> /\ Listened

\* setTimeout(() => { const block = this.items.get(newBlock.id);
\*                    if (block) { this.selectBlock(newBlock.id); block.startEditing() } }, 0)
TimerSelect ==
    /\ timers # NoId
    /\ selectedBlockId' = IF timers \in DOMAIN el THEN timers ELSE selectedBlockId
    /\ editing' = IF timers \in DOMAIN el
                  THEN [id |-> timers, value |-> items[FindIndex(items, timers)].label]
                  ELSE editing
    /\ timers' = NoId
    /\ lastOp' = [op |-> "pointer"] /\ log' = <<>>
    /\ UNCHANGED <<storeVars, ret, el, envVars, dragState, isDragging, frames, walkVars>>
    /\ UNCHANGED <<mousedownPosition, isDraggingBlock, resizeState>>
    /\ selectedAnnotationId' = IF timers \in DOMAIN el THEN NoId ELSE selectedAnnotationId
    /\ UNCHANGED restVars

\* block.js: a click on a block selects it
ClickBlock ==
    /\ NoGesture
    /\ \E id \in DOMAIN el : selectedBlockId' = id
    /\ NoStoreCall
    /\ UNCHANGED <<mousedownPosition, isDraggingBlock, resizeState, timers>>
    /\ selectedAnnotationId' = NoId
    /\ UNCHANGED restVars

\* the N key: a five-day block after the rightmost block, or at the start date
KeyN ==
    /\ NoGesture /\ Len(items) < MaxBlocks /\ nextId <= MaxId
    /\ LET rightmost == FindRightmostBlock
           newDate   == IF rightmost # 0
                        THEN GetDateFromRelativeDay(RelativeDayOf(items[rightmost])
                                                    + items[rightmost].duration)
                        ELSE ToISODate(GetStartDate)
           row       == IF rightmost # 0 THEN items[rightmost].row ELSE 0
           r         == AddBlock(Store, newDate, NewBlockDuration, "", row)
       IN  /\ InWindow(r.st.items)
           /\ Handled("key-n", r)
           /\ selectedBlockId' = r.ret.id
    /\ UNCHANGED <<mousedownPosition, isDraggingBlock, resizeState, timers>>
    /\ selectedAnnotationId' = NoId
    /\ UNCHANGED seenVars /\ Listened

\* the + and = keys: the selected block grows by one day
KeyPlus ==
    /\ NoGesture /\ selectedBlockId # NoId /\ GetItem(selectedBlockId) # 0
    /\ LET block == items[GetItem(selectedBlockId)]
           r     == UpdateItem(Store, block.id, [duration |-> block.duration + 1])
       IN  /\ InWindow(r.st.items)
           /\ Handled("key-plus", r)
           /\ selectedBlockId' = RenderSelection(r.st.items, selectedBlockId)
    /\ UNCHANGED <<mousedownPosition, isDraggingBlock, resizeState, timers>>
    /\ UNCHANGED hoverVars /\ Listened

\* the - and _ keys: the selected block shrinks by one day
KeyMinus ==
    /\ NoGesture /\ selectedBlockId # NoId /\ GetItem(selectedBlockId) # 0
    /\ LET block == items[GetItem(selectedBlockId)]
           r     == UpdateItem(Store, block.id, [duration |-> block.duration - 1])
       IN  /\ CanShrink(block)
           /\ Handled("key-minus", r)
           /\ selectedBlockId' = RenderSelection(r.st.items, selectedBlockId)
    /\ UNCHANGED <<mousedownPosition, isDraggingBlock, resizeState, timers>>
    /\ UNCHANGED hoverVars /\ Listened

\* startResize: a press on a block's resize handle
StartResize ==
    /\ NoGesture
    /\ \E id \in DOMAIN el :
          LET data == items[FindIndex(items, id)]
          IN  resizeState' =
                  [id |-> id,
                   initialWidth |-> el[id].width,
                   initialDuration |-> data.duration,
                   initialLeft |-> el[id].left,
                   initialRelativeDay |-> RelativeDayOf(data),
                   blocksToPush |-> FindBlocksToRight(id)]
    /\ listeners' = listeners \cup { "resize" }
    /\ NoStoreCall
    /\ UNCHANGED <<selectedBlockId, mousedownPosition, isDraggingBlock, timers>>
    /\ UNCHANGED <<selectedAnnotationId, pointVars, saveVars>>
    /\ UNCHANGED <<tempBlockElement, dropZoneShown, flagTimers>>

\* handleResizeMove: the preview, on the elements only
HandleResizeMove ==
    /\ resizeState # Null
    /\ \E deltaX \in ResizeDeltas :
          LET newWidth   == Max(DayToPixel(1), resizeState.initialWidth + deltaX)
              deltaWidth == newWidth - resizeState.initialWidth
              pushed     == resizeState.blocksToPush
              LeftOf(id) == LET i == CHOOSE i \in DOMAIN pushed : pushed[i].id = id
                            IN  pushed[i].initialLeft + deltaWidth
          IN  el' = [id \in DOMAIN el |->
                        IF id = resizeState.id THEN [el[id] EXCEPT !.width = newWidth]
                        ELSE IF \E i \in DOMAIN pushed : pushed[i].id = id
                        THEN [el[id] EXCEPT !.left = LeftOf(id)]
                        ELSE el[id]]
    /\ lastOp' = [op |-> "pointer"] /\ log' = <<>>
    /\ UNCHANGED <<storeVars, ret, envVars, dragState, isDragging, editing, frames, walkVars>>
    /\ UNCHANGED <<selectedBlockId, mousedownPosition, isDraggingBlock, resizeState, timers>>
    /\ UNCHANGED auxVars

\* handleResizeEnd: the commit, and the elements animated to their final places
HandleResizeEnd ==
    /\ resizeState # Null
    /\ \E deltaX \in ResizeDeltas :
          LET rs          == resizeState
              minWidth    == DayToPixelForDuration(rs.initialRelativeDay, 1)
              newWidth    == Max(minWidth, rs.initialWidth + deltaX)
              startDay    == rs.initialRelativeDay
              endDay      == PixelToDay(rs.initialLeft + newWidth)
              newDuration == ClampDuration(endDay, startDay)
              deltaDays   == newDuration - rs.initialDuration
              resized     == UpdateItem(Store, rs.id, [duration |-> newDuration])
              r           == UpdatePushed([st |-> resized.st, log |-> resized.log],
                                          rs.blocksToPush, deltaDays)
              pushed      == rs.blocksToPush
              LeftOf(id)  == LET i == CHOOSE i \in DOMAIN pushed : pushed[i].id = id
                             IN  DayToPixel(pushed[i].initialRelativeDay + deltaDays)
          IN  /\ InWindow(r.st.items)
              /\ items' = r.st.items
              /\ lastBadgeValue' = r.st.lastBadgeValue
              /\ log' = r.log
              /\ lastOp' = [op |-> "handleResizeEnd", id |-> rs.id, deltaX |-> deltaX,
                            initialDuration |-> rs.initialDuration,
                            pushed |-> { pushed[i].id : i \in DOMAIN pushed },
                            before |-> items]
              /\ el' = [id \in DOMAIN el |->
                          IF id = rs.id
                          THEN [el[id] EXCEPT !.width =
                                   DayToPixelForDuration(rs.initialRelativeDay, newDuration)]
                          ELSE IF \E i \in DOMAIN pushed : pushed[i].id = id
                          THEN [el[id] EXCEPT !.left = LeftOf(id)]
                          ELSE el[id]]
    /\ resizeState' = Null
    /\ listeners' = listeners \ { "resize" }
    /\ UNCHANGED <<nextId, annotations, offBlocks, dataOk, ret, envVars, dragState, isDragging, editing, frames, walkVars>>
    /\ UNCHANGED <<selectedBlockId, mousedownPosition, isDraggingBlock, timers>>
    /\ UNCHANGED <<selectedAnnotationId, pointVars>> /\ Listened
    /\ UNCHANGED <<tempBlockElement, dropZoneShown, flagTimers>>


\* the block with this id in a list of items
BlockIn(its, id) == its[FindIndex(its, id)]

\* no two blocks of one row overlap in their [startDate, startDate + duration) days
NoOverlap(its) ==
    \A i, j \in DOMAIN its :
        (i < j /\ its[i].row = its[j].row)
            => \/ its[i].startDate + its[i].duration <= its[j].startDate
               \/ its[j].startDate + its[j].duration <= its[i].startDate

ResizeCommitted == lastOp.op = "handleResizeEnd"

\* C1: when a DragResize of block B commits with D = newDuration - oldDuration, every
\* other block of B's row that started at or after B's old right edge ends D days
\* later than it started, with its duration unchanged.
C1_PushedByDelta ==
    ResizeCommitted =>
        LET B0 == BlockIn(lastOp.before, lastOp.id)
            D  == BlockIn(items, lastOp.id).duration - B0.duration
        IN  \A i \in DOMAIN lastOp.before :
                LET X0 == lastOp.before[i]
                    X1 == BlockIn(items, X0.id)
                IN  (/\ X0.id # B0.id /\ X0.row = B0.row
                     /\ X0.startDate >= B0.startDate + B0.duration)
                        => (X1.startDate = X0.startDate + D /\ X1.duration = X0.duration)

\* C2: if no two blocks of a row overlapped before a DragResize, none overlap after
\* its commit.
C2_ResizeKeepsNoOverlap ==
    ResizeCommitted => (NoOverlap(lastOp.before) => NoOverlap(items))

\* C3: at no change notification of a resize commit does a listener see the resized
\* block's new duration while a pushed block the commit moves still has its old
\* startDate.
C3_ResizeAtomic ==
    ResizeCommitted =>
        \A k \in DOMAIN log :
            ~ /\ BlockIn(log[k], lastOp.id).duration = BlockIn(items, lastOp.id).duration
              /\ \E id \in lastOp.pushed :
                    /\ BlockIn(items, id).startDate # BlockIn(lastOp.before, id).startDate
                    /\ BlockIn(log[k], id).startDate = BlockIn(lastOp.before, id).startDate

\* C4: in every state reached through click-create, drag-create, the N key, DragResize
\* and the + and - keys, every block's duration is an integer of at least 1.
C4_DurationAtLeastOne ==
    \A i \in DOMAIN items : items[i].duration \in Int /\ items[i].duration >= 1

\* a DragResize of a block longer than a day, released far to the left of the block,
\* has committed a duration of 1
C4_Witness ==
    /\ ResizeCommitted
    /\ lastOp.deltaX = Px(-1000)
    /\ lastOp.initialDuration > 1
    /\ BlockIn(items, lastOp.id).duration = 1

----------------------------------------------------------------------------
(* pixelToDay, snapPixelToGrid and snapPixelToGridPreferRight applied to a  *)
(* pixel at, next to, or midway between the gridlines of the first days     *)

MaxSnapDay == 7
SnapSpread == 2

\* the pixels within SnapSpread units of a gridline, and the middle of each column
\* with its two neighbours
SnapPixels ==
    { p \in UNION { { DayToPixel(d) + k : k \in (- SnapSpread) .. SnapSpread }
                    \cup { (DayToPixel(d) + DayToPixel(d + 1)) \div 2 + k : k \in -1 .. 1 }
                    : d \in 0 .. MaxSnapDay } : p >= 0 }

InitSnap ==
    /\ tzOffset = 0
    /\ startDate \in StartDates
    /\ zoom \in Zooms
    /\ StoreIdle /\ UiIdle
    /\ wPc = "pixel" /\ wPixel \in SnapPixels
    /\ wIn = 0 /\ wI = 0 /\ wAcc = 0 /\ wDay = 0 /\ wOut = 0

\* a call on the pixel drawn: wOut is what it returns
Applied(name, value) ==
    /\ wPc = "pixel"
    /\ wPc' = name /\ wOut' = value
    /\ UNCHANGED <<wIn, wI, wAcc, wDay, wPixel>>
    /\ UNCHANGED <<envVars, storeVars, callVars, uiVars>>
    /\ UNCHANGED auxVars

ApplyPixelToDay == Applied("pixelToDay", PixelToDay(wPixel))

ApplySnap == Applied("snapPixelToGrid", SnapPixelToGrid(wPixel))

\* snapPixelToGrid applied to its own result; wAcc keeps the first result
ApplySnapAgain ==
    /\ wPc = "snapPixelToGrid"
    /\ wPc' = "snapPixelToGridTwice" /\ wAcc' = wOut /\ wOut' = SnapPixelToGrid(wOut)
    /\ UNCHANGED <<wIn, wI, wDay, wPixel>>
    /\ UNCHANGED <<envVars, storeVars, callVars, uiVars>>
    /\ UNCHANGED auxVars

ApplyPreferRight == Applied("snapPixelToGridPreferRight", SnapPixelToGridPreferRight(wPixel))

NextSnap == ApplyPixelToDay \/ ApplySnap \/ ApplySnapAgain \/ ApplyPreferRight

SpecSnap == InitSnap /\ [][NextSnap]_vars

\* the day whose half-open column [dayToPixel(d), dayToPixel(d + 1)) holds the pixel
ContainingDay(pixel) ==
    CHOOSE d \in 0 .. (MaxSnapDay + 1) : DayToPixel(d) <= pixel /\ pixel < DayToPixel(d + 1)

\* C11: for every pixel p >= 0, pixelToDay(p) is the day d with
\* dayToPixel(d) <= p < dayToPixel(d + 1); a pixel on a day boundary resolves to the
\* day that starts there.
C11_HalfOpenDay ==
    wPc = "pixelToDay" => (DayToPixel(wOut) <= wPixel /\ wPixel < DayToPixel(wOut + 1))

\* C12: snapPixelToGrid(snapPixelToGrid(p)) = snapPixelToGrid(p) for every pixel p and
\* zoom, and snapPixelToGrid(p) is the left gridline of the day containing p.
C12_SnapIdempotentLeftGridline ==
    /\ wPc = "snapPixelToGrid" => wOut = DayToPixel(ContainingDay(wPixel))
    /\ wPc = "snapPixelToGridTwice" => wOut = wAcc

\* the gridline of the two bounding the column of the pixel that is closer to it,
\* the right one when they are equally far
CloserGridline(pixel) ==
    LET left  == DayToPixel(ContainingDay(pixel))
        right == DayToPixel(ContainingDay(pixel) + 1)
    IN  IF right - pixel <= pixel - left THEN right ELSE left

\* C15: snapPixelToGridPreferRight(p) is, of the left and right gridlines of the day
\* containing p, the one closer to p, and the right gridline when p is equally far
\* from both.
C15_CloserGridlineRightOnTie ==
    wPc = "snapPixelToGridPreferRight" => wOut = CloserGridline(wPixel)

\* snapPixelToGridPreferRight has run on the exact middle of a weekday column at a
\* zoom other than 1 and returned the column's right gridline
C15_Witness ==
    /\ wPc = "snapPixelToGridPreferRight"
    /\ zoom.n # zoom.d
    /\ ~ IsWeekend(ContainingDay(wPixel))
    /\ 2 * wPixel = DayToPixel(ContainingDay(wPixel)) + DayToPixel(ContainingDay(wPixel) + 1)
    /\ wOut = DayToPixel(ContainingDay(wPixel) + 1)

----------------------------------------------------------------------------
(* The width of a week and the two date conversions, applied to a relative  *)
(* day on either side of the start date, in several time zones              *)

MaxRelDay == 4

RelDays == (- MaxRelDay) .. MaxRelDay

InitDates ==
    /\ tzOffset \in TzOffsets
    /\ startDate \in StartDates
    /\ zoom \in Zooms
    /\ StoreIdle /\ UiIdle
    /\ wPc = "day" /\ wIn \in RelDays
    /\ wI = 0 /\ wAcc = 0 /\ wDay = 0 /\ wPixel = 0 /\ wOut = 0

\* dayToPixelForDuration(startDay, 7) in wOut, 7 * dayToPixel(1) in wAcc
ApplySpan ==
    /\ wPc = "day"
    /\ wPc' = "dayToPixelForDuration"
    /\ wOut' = DayToPixelForDuration(wIn, 7)
    /\ wAcc' = 7 * DayToPixel(1)
    /\ UNCHANGED <<wIn, wI, wDay, wPixel>>
    /\ UNCHANGED <<envVars, storeVars, callVars, uiVars>>
    /\ UNCHANGED auxVars

\* getRelativeDayFromDate(getDateFromRelativeDay(n)) in wOut, the date between in wDay
ApplyInverse ==
    /\ wPc = "day"
    /\ wPc' = "getRelativeDayFromDate"
    /\ wDay' = GetDateFromRelativeDay(wIn)
    /\ wOut' = GetRelativeDayFromDate(GetDateFromRelativeDay(wIn))
    /\ UNCHANGED <<wIn, wI, wAcc, wPixel>>
    /\ UNCHANGED <<envVars, storeVars, callVars, uiVars>>
    /\ UNCHANGED auxVars

NextDates == ApplySpan \/ ApplyInverse

SpecDates == InitDates /\ [][NextDates]_vars

\* C13 as stated: for every start date, every startDay and every zoom,
\* dayToPixelForDuration(startDay, 7) < 7 * dayToPixel(1).
C13_WeekNarrowerAllStarts == wPc = "dayToPixelForDuration" => wOut < wAcc

\* C13 amended: the same inequality for every start date that is a weekday.
C13_WeekNarrowerWeekdayStart ==
    (wPc = "dayToPixelForDuration" /\ ~ IsWeekend(0)) => wOut < wAcc

\* the width of a week starting before a weekday start date has been compared with
\* seven times the first column at a zoom other than 1
C13_Witness ==
    /\ wPc = "dayToPixelForDuration" /\ ~ IsWeekend(0)
    /\ wIn < 0 /\ zoom.n # zoom.d
    /\ wOut < wAcc

\* C14: for every integer n, every start date and every local time-zone offset,
\* getRelativeDayFromDate(getDateFromRelativeDay(n)) = n.
C14_DateRoundTrip == wPc = "getRelativeDayFromDate" => wOut = wIn

----------------------------------------------------------------------------
(* Claims on the store's loading of a document *)

\* C18: when fromJSON is given a document that does not parse, or one lacking
\* timeline, items or offTimeline, it returns false and the store's data and nextId
\* are what they were before the call.
C18_FailedLoadLeavesStore ==
    (lastOp.op = "fromJSON" /\ ret = "false") => ~ lastOp.changed

----------------------------------------------------------------------------
(* Claims on every state the pointer and the keyboard reach *)

\* C19: in every state reached from an empty store by creating, moving and resizing
\* blocks and by the keyboard duration keys, no two blocks of one row overlap.
C19_NoOverlapEver == NoOverlap(items)

----------------------------------------------------------------------------
(* DragMove of a block (setupDragDrop, startDrag, handleDragMove,           *)
(* handleDragEnd) and the editing of a milestone (the A key, annotation.js  *)
(* renderEditMode), over blocks made by clicks on the empty track.  The     *)
(* track's bounding rectangle has its corner at pointer (0, 0).             *)

\* render(): numRows and totalHeight, from the viewport's height
NumRows == Max(1, (ViewportHeight - 2 * Padding) \div RowSpacing)
TrackBottom == Padding + NumRows * RowSpacing + Padding

\* dayToPixel(day) summed a week at a time: any seven consecutive days are five
\* weekdays and two weekend days, so the loop's total is that of its first
\* day % 7 days plus one week's width for each remaining week
DayToPixelByWeeks(day) ==
    ZoomPx(SumWidths(0, day % 7) + (day \div 7) * (5 * WeekdayWidth + 2 * WeekendWidth))

\* render(): totalWidth, from the last day any block reaches
TrackRight ==
    LET EndDay(i) == RelativeDayOf(items[i]) + items[i].duration
        maxDay == IF items = <<>> THEN 0
                  ELSE Max(0, CHOOSE m \in { EndDay(i) : i \in DOMAIN items } :
                                  \A i \in DOMAIN items : EndDay(i) <= m)
    IN  DayToPixelByWeeks(Max(maxDay + TrackBuffer, MinTrackDays))

\* handleDragEnd: isOutside
IsOutside(x, y) == x < 0 \/ x > TrackRight \/ y < 0 \/ y > TrackBottom

\* findDropZone: the insertion index of the gap or edge the pointer is next to
FindDropZone(x, draggedId) ==
    LET n == Len(items)
        StartPx(i) == DayToPixel(RelativeDayOf(items[i]))
        EndPx(i)   == DayToPixel(RelativeDayOf(items[i]) + items[i].duration)
        between == { i \in 1 .. (n - 1) :
                       /\ items[i].id # draggedId /\ items[i + 1].id # draggedId
                       /\ Abs(2 * x - (EndPx(i) + StartPx(i + 1))) < 2 * Px(DropGap) }
    IN  IF between # {}
        THEN [index |-> CHOOSE i \in between : \A j \in between : i <= j]
        ELSE IF n > 0 /\ x < StartPx(1) /\ Abs(x - StartPx(1)) < Px(DropEdge)
        THEN [index |-> 0]
        ELSE IF n > 0 /\ x > EndPx(n) /\ Abs(x - EndPx(n)) < Px(DropEdge)
        THEN [index |-> n]
        ELSE Null

\* handleDrop: the block is taken out, dated, put back at the drop index and the
\* items are sorted; no change notification
HandleDrop(st, dropZone, draggedId, position, targetRow) ==
    LET currentIndex == FindIndex(st.items, draggedId)
        item == [st.items[currentIndex] EXCEPT
                    !.startDate = GetDateFromRelativeDay(position), !.row = targetRow]
        insertIndex == IF currentIndex - 1 < dropZone.index THEN dropZone.index - 1
                       ELSE dropZone.index
    IN  IF currentIndex = 0 THEN [st |-> st, ret |-> Null, log |-> <<>>]
        ELSE [st |-> [st EXCEPT !.items = SortTimelineItems(
                                     InsertAt(RemoveAt(st.items, currentIndex),
                                              insertIndex, item))],
              ret |-> Null, log |-> <<>>]

\* input.value.trim()
Trim(text) == IF text = " " THEN "" ELSE text

Texts == { "", " ", "m" }

FinishEditingKeep(st, id, value) ==
    UpdateItem(st, id, [text |-> Trim(value)])

\* renderEditMode finishEditing: a text is stored, an empty one removes the milestone
FinishEditing(st, id, value) ==
    LET newText == Trim(value)
    IN  IF newText # "" THEN UpdateItem(st, id, [text |-> newText])
        ELSE RemoveAnnotation(st, id)

\* the pointer moves offered to a drag: none, by a few pixels, by a column, and to
\* above the track
DragDeltaXs == { Px(-4), 0, Px(80) }
DragDeltaYs == { -1000, 0 }

\* the data, the change log and the elements after a handler whose store calls
\* returned r and which then called render()
Stored(op, r) ==
    /\ items' = r.st.items
    /\ annotations' = r.st.annotations
    /\ nextId' = r.st.nextId
    /\ lastBadgeValue' = r.st.lastBadgeValue
    /\ log' = r.log
    /\ lastOp' = op
    /\ UNCHANGED <<offBlocks, dataOk, ret, envVars, walkVars>>
    /\ UNCHANGED <<mousedownPosition, isDraggingBlock, resizeState, timers>>

\* setupDragDrop pointerdown on a block, then startDrag
PointerDownBlock ==
    /\ NoPress
    /\ \E id \in DOMAIN el :
          /\ selectedBlockId' = id
          /\ dragState' = [id |-> id,
                           startX |-> el[id].left + Px(10), startY |-> el[id].top + 10,
                           clientX |-> el[id].left + Px(10), clientY |-> el[id].top + 10,
                           initialLeft |-> el[id].left, initialTop |-> el[id].top]
    /\ isDragging' = FALSE
    /\ listeners' = listeners \cup { "drag" }
    /\ lastOp' = [op |-> "pointer"] /\ log' = <<>>
    /\ UNCHANGED <<storeVars, ret, el, envVars, walkVars>>
    /\ UNCHANGED <<mousedownPosition, isDraggingBlock, resizeState, timers, editing, frames>>
    /\ selectedAnnotationId' = NoId
    /\ UNCHANGED <<pointVars, saveVars, tempBlockElement, dropZoneShown, flagTimers>>

\* handleDragMove: the element follows the pointer, snapped to the grid and the rows
HandleDragMove ==
    /\ dragState # Null
    /\ \E dx \in DragDeltaXs, dy \in DragDeltaYs :
          LET deltaX  == dx
              deltaY  == dy
              newLeft == dragState.initialLeft + deltaX
              clientY == dragState.startY + deltaY
              newTop  == RowTop(RowOf(clientY))
          IN  /\ newLeft >= 0
              /\ isDragging' = (isDragging \/ Abs(deltaX) > Px(DragThreshold)
                                           \/ Abs(deltaY) > DragThreshold)
              /\ el' = [el EXCEPT ![dragState.id] =
                           [@ EXCEPT !.left = SnapPixelToGrid(newLeft), !.top = newTop]]
              /\ dragState' = [dragState EXCEPT !.clientX = dragState.startX + deltaX,
                                                !.clientY = clientY]
              /\ dropZoneShown' =
                    (FindDropZone(dragState.startX + deltaX, dragState.id) # Null)
    /\ lastOp' = [op |-> "pointer"] /\ log' = <<>>
    /\ UNCHANGED <<storeVars, ret, envVars, walkVars>>
    /\ UNCHANGED <<selectedBlockId, mousedownPosition, isDraggingBlock, resizeState, timers,
                   editing, frames>>
    /\ UNCHANGED <<selectedAnnotationId, pointVars, saveVars>>
    /\ UNCHANGED <<tempBlockElement, listeners, flagTimers>>

\* cleanupDrag without hideDropZone()
CleanupDragKeepsDropZone ==
    /\ dragState' = Null
    /\ UNCHANGED dropZoneShown
    /\ listeners' = listeners \ { "drag" }
    /\ IF isDragging
       THEN flagTimers' = flagTimers + 1 /\ UNCHANGED isDragging
       ELSE isDragging' = FALSE /\ UNCHANGED flagTimers

\* cleanupDrag: the gesture record, the drop-zone indicator and the listeners go; the
\* flags of a drag that moved are cleared 300 ms later
CleanupDrag ==
    /\ dragState' = Null
    /\ dropZoneShown' = FALSE
    /\ listeners' = listeners \ { "drag" }
    /\ IF isDragging
       THEN flagTimers' = flagTimers + 1 /\ UNCHANGED isDragging
       ELSE isDragging' = FALSE /\ UNCHANGED flagTimers

\* the callback of cleanupDrag's setTimeout(..., 300)
FlagTimer ==
    /\ flagTimers > 0
    /\ flagTimers' = flagTimers - 1
    /\ isDragging' = FALSE
    /\ lastOp' = [op |-> "pointer"] /\ log' = <<>>
    /\ UNCHANGED <<storeVars, ret, el, envVars, walkVars>>
    /\ UNCHANGED <<selectedBlockId, mousedownPosition, isDraggingBlock, resizeState,
                   dragState, timers, editing, frames>>
    /\ UNCHANGED <<selectedAnnotationId, pointVars, saveVars>>
    /\ UNCHANGED <<tempBlockElement, dropZoneShown, listeners>>

\* handleDragEnd at the pointer's position, then cleanupDrag
HandleDragEnd ==
    /\ dragState # Null
    /\ isDragging => flagTimers < MaxFlagTimers
    /\ LET id          == dragState.id
           isOutside   == IsOutside(dragState.clientX, dragState.clientY)
           currentLeft == el[id].left
           snappedDay  == PixelToDay(SnapPixelToGrid(currentLeft))
           targetRow   == RowOf(dragState.clientY)
           dropZone    == FindDropZone(dragState.clientX, id)
           updated     == UpdateItem(Store, id,
                              [startDate |-> GetDateFromRelativeDay(snappedDay),
                               row |-> targetRow])
           moved       == IF dropZone # Null
                          THEN HandleDrop(Store, dropZone, id, snappedDay, targetRow)
                          ELSE [updated EXCEPT
                                   !.st.items = SortTimelineItems(updated.st.items)]
           r           == IF isOutside THEN RemoveItem(Store, id) ELSE moved
       IN  /\ InWindow(r.st.items)
           /\ Stored([op |-> "handleDragEnd", id |-> id, isOutside |-> isOutside,
                      isDragging |-> isDragging, before |-> items,
                      annotations |-> annotations], r)
           /\ el' = IF isOutside THEN [i \in DOMAIN el \ {id} |-> el[i]]
                    ELSE Render(r.st.items)
    /\ CleanupDrag
    /\ UNCHANGED <<selectedBlockId, editing, frames>>
    /\ UNCHANGED <<selectedAnnotationId, pointVars, tempBlockElement>> /\ Listened

\* the A key: an empty milestone at the selected block's date and row, edited at the
\* next animation frame
KeyA ==
    /\ NoGesture /\ selectedBlockId # NoId /\ GetItem(selectedBlockId) # 0
    /\ Len(annotations) < MaxAnn /\ nextId <= MaxId
    /\ LET block == items[GetItem(selectedBlockId)]
           r     == AddAnnotation(Store, block.startDate, block.row, "")
       IN  /\ Stored([op |-> "key-a", id |-> r.ret.id], r)
           /\ el' = Render(r.st.items)
           /\ frames' = r.ret.id
    /\ UNCHANGED <<selectedBlockId, dragState, isDragging, editing>>
    /\ UNCHANGED hoverVars /\ Listened

\* the animation frame of the A key: selectAnnotation and startEditing
StartEditing ==
    /\ frames # NoId
    /\ IF frames \in Ids(annotations)
       THEN /\ selectedBlockId' = NoId
            /\ editing' = [id |-> frames,
                           value |-> annotations[FindIndex(annotations, frames)].text]
       ELSE UNCHANGED <<selectedBlockId, editing>>
    /\ frames' = NoId
    /\ lastOp' = [op |-> "pointer"] /\ log' = <<>>
    /\ UNCHANGED <<storeVars, ret, el, envVars, walkVars>>
    /\ UNCHANGED <<mousedownPosition, isDraggingBlock, resizeState, timers, dragState,
                   isDragging>>
    /\ selectedAnnotationId' = IF frames \in Ids(annotations) THEN frames
                             ELSE selectedAnnotationId
    /\ UNCHANGED restVars

\* renderDisplayMode: a click on a milestone selects it and opens its input
ClickAnnotation ==
    /\ NoGesture
    /\ \E i \in DOMAIN annotations :
          /\ selectedAnnotationId' = annotations[i].id
          /\ editing' = [id |-> annotations[i].id, value |-> annotations[i].text]
    /\ selectedBlockId' = NoId
    /\ lastOp' = [op |-> "pointer"] /\ log' = <<>>
    /\ UNCHANGED <<storeVars, ret, el, envVars, walkVars>>
    /\ UNCHANGED <<mousedownPosition, isDraggingBlock, resizeState, timers, dragState,
                   isDragging, frames>>
    /\ UNCHANGED restVars

\* the user types in a milestone's input: input.value changes
TypeText ==
    /\ editing # Null /\ editing.id \in Ids(annotations)
    /\ \E text \in Texts : text # editing.value /\ editing' = [editing EXCEPT !.value = text]
    /\ lastOp' = [op |-> "pointer"] /\ log' = <<>>
    /\ UNCHANGED <<storeVars, ret, el, envVars, walkVars>>
    /\ UNCHANGED <<selectedBlockId, mousedownPosition, isDraggingBlock, resizeState, timers,
                   dragState, isDragging, frames>>
    /\ UNCHANGED auxVars

\* the end of an edit whose store calls returned r
EditEnded(key, r) ==
    /\ Stored([op |-> "edit-end", key |-> key, id |-> editing.id, value |-> editing.value,
               before |-> annotations], r)
    /\ editing' = Null
    /\ UNCHANGED <<selectedBlockId, el, dragState, isDragging, frames>>

\* block.js startEditing finishEditing: the trimmed label is stored, empty or not
FinishEditingLabel(st, id, value) ==
    UpdateItem(st, id, [label |-> Trim(value)])

\* the finishEditing of the input that is open: a block's label or a milestone's text
FinishOpenEditing ==
    IF editing.id \in Ids(items) THEN FinishEditingLabel(Store, editing.id, editing.value)
    ELSE FinishEditing(Store, editing.id, editing.value)

\* blur of the input: finishEditing
Blur ==
    /\ editing # Null
    /\ EditEnded("blur", FinishOpenEditing)
    /\ UNCHANGED hoverVars /\ Listened

\* Enter in the input: finishEditing
KeyEnter ==
    /\ editing # Null
    /\ EditEnded("Enter", FinishOpenEditing)
    /\ UNCHANGED hoverVars /\ Listened

\* Escape in the input.  A milestone with a text goes back to display mode, an empty
\* one is removed; going back to display mode takes the focused input out of the
\* document, on which a browser may or may not fire blur.  A block's input is replaced
\* by its label as stored; isFinishingEdit keeps a blur fired by that from storing.
KeyEscape ==
    /\ editing # Null
    /\ IF editing.id \in Ids(items)
       THEN EditEnded("Escape", [st |-> Store, ret |-> Null, log |-> <<>>])
       ELSE LET text == annotations[FindIndex(annotations, editing.id)].text
            IN  IF Trim(text) # ""
                THEN \E blurFires \in BOOLEAN :
                        EditEnded("Escape",
                                  IF blurFires
                                  THEN FinishEditing(Store, editing.id, editing.value)
                                  ELSE [st |-> Store, ret |-> Null, log |-> <<>>])
                ELSE EditEnded("Escape", RemoveAnnotation(Store, editing.id))
    /\ UNCHANGED hoverVars /\ Listened

\* the pointer and key handlers of the timeline, and the blur that ends the label
\* editing a creation opens
Next ==
    \/ MouseDown \/ MouseMove \/ MouseUp \/ TimerSelect \/ ClickBlock
    \/ KeyN \/ KeyPlus \/ KeyMinus
    \/ StartResize \/ HandleResizeMove \/ HandleResizeEnd
    \/ Blur

Spec == Init /\ [][Next]_vars

NextDrag ==
    \/ MouseDown \/ MouseUp \/ TimerSelect
    \/ PointerDownBlock \/ HandleDragMove \/ HandleDragEnd \/ FlagTimer
    \/ KeyA \/ StartEditing \/ ClickAnnotation \/ TypeText \/ Blur \/ KeyEnter \/ KeyEscape

InitDrag == Init /\ tzOffset = 0

SpecDrag == InitDrag /\ [][NextDrag]_vars

DragEnded == "op" \in DOMAIN lastOp /\ lastOp.op = "handleDragEnd"

\* C16: a DragMove of a block that ends with the pointer outside the track's bounding
\* rectangle removes that block from the items, whatever its position among them,
\* and leaves every other block and every milestone as it was.
C16_DragOutRemovesOnlyThatBlock ==
    (DragEnded /\ lastOp.isOutside) =>
        LET index == FindIndex(lastOp.before, lastOp.id)
        IN  /\ index # 0
            /\ Len(items) = Len(lastOp.before) - 1
            /\ items = RemoveAt(lastOp.before, index)
            /\ annotations = lastOp.annotations

\* a block that is not the first of two has been dragged out of the track while a
\* milestone was stored
C16_Witness ==
    /\ DragEnded /\ lastOp.isOutside
    /\ Len(lastOp.before) = 2 /\ FindIndex(lastOp.before, lastOp.id) = 2
    /\ Len(items) = 1 /\ annotations # <<>>

EditEnd == "op" \in DOMAIN lastOp /\ lastOp.op = "edit-end"

IsBlank(text) == text = "" \/ text = " "

\* C17: whenever the editing of a milestone ends, by blur, Enter or Escape, without
\* a non-empty text committed, the milestone is no longer in the store: a milestone
\* still stored after the end of its editing has a non-empty text.
C17_EmptyMilestoneRemoved ==
    EditEnd =>
        \A i \in DOMAIN annotations :
            annotations[i].id = lastOp.id => ~ IsBlank(annotations[i].text)

\* the only milestone, created empty, has had its editing ended by blur with an
\* input of spaces, and the store holds no milestone
C17_Witness ==
    /\ EditEnd /\ lastOp.key = "blur" /\ lastOp.value = " "
    /\ Len(lastOp.before) = 1 /\ lastOp.before[1].text = ""
    /\ annotations = <<>>

\* C20: a pointer gesture on a block whose movement never exceeds 5 px in either axis
\* commits no reposition: after its pointer-up the block has the startDate and the
\* row it had.
C20_SubThresholdKeepsBlock ==
    (DragEnded /\ ~ lastOp.isDragging /\ ~ lastOp.isOutside) =>
        LET before == BlockIn(lastOp.before, lastOp.id)
            after  == BlockIn(items, lastOp.id)
        IN  after.startDate = before.startDate /\ after.row = before.row

----------------------------------------------------------------------------
(* Claims on what a resize commit leaves alone *)

\* the blocks of B's row that start at or after B's right edge, in a list of items
RightOfEdge(its, id) ==
    LET B == BlockIn(its, id)
    IN  { its[i].id : i \in { j \in DOMAIN its :
              /\ its[j].id # id /\ its[j].row = B.row
              /\ RelativeDayOf(its[j]) >= RelativeDayOf(B) + B.duration } }

----------------------------------------------------------------------------
(* Claims on how a gesture ends *)

\* the pointer-up of a creation gesture whose movement had passed the threshold
CreateDragReleased ==
    mousedownPosition # Null /\ isDraggingBlock /\ mousedownPosition' = Null

\* C21: a gesture that has passed the move threshold is never cancelled: wherever the
\* pointer is released, its pointer-up ends in a store commit (a creation gesture
\* creates its block, a resize writes its duration).
C21_PastThresholdCommits ==
    [][ /\ CreateDragReleased => lastOp'.op = "drag-create"
        /\ (resizeState # Null /\ resizeState' = Null) => lastOp'.op = "handleResizeEnd"
      ]_vars

----------------------------------------------------------------------------
(* Claims on the remembered badge, under SpecStore *)

\* how many blocks of a list have the badge v
WithBadge(its, v) == Cardinality({ i \in DOMAIN its : its[i].badge = v })

\* the step is an updateItem that gave a block of the timeline the badge v: the call
\* changes one item, so one more block has that badge
BadgeSetTo(v) ==
    /\ lastOp'.op = "updateItem" /\ ret' = "item"
    /\ WithBadge(items', v) > WithBadge(items, v)

BadgeSet == \E v \in { "XD", "PM", "PD" } : BadgeSetTo(v)

\* the step is an addBlock that returned the block it created
BlockCreated == lastOp'.op = "addBlock" /\ ret' = "item"

\* the block created by the step has the badge that was remembered before it
CreatedWithRemembered ==
    \E j \in DOMAIN items' :
        /\ items'[j].id = nextId
        /\ items'[j].badge = lastBadgeValue

\* C25 as stated: a badge update to v makes lastBadgeValue v, a block is created with
\* the remembered badge, and nothing but a badge update changes the remembered badge.
C25_BadgeRememberedUntilUpdate ==
    [][ /\ \A v \in { "XD", "PM", "PD" } : BadgeSetTo(v) => lastBadgeValue' = v
        /\ BlockCreated => CreatedWithRemembered
        /\ ~ BadgeSet => lastBadgeValue' = lastBadgeValue
      ]_vars

\* C25 amended: as stated, for every step other than the load of a document.
C25_BadgeRememberedUntilUpdateOrLoad ==
    [][ /\ \A v \in { "XD", "PM", "PD" } : BadgeSetTo(v) => lastBadgeValue' = v
        /\ BlockCreated => CreatedWithRemembered
        /\ (~ BadgeSet /\ lastOp'.op # "fromJSON") => lastBadgeValue' = lastBadgeValue
      ]_vars

\* a block has just been created with the badge PM that an earlier update set
C25_Witness ==
    /\ lastOp.op = "addBlock" /\ ret = "item" /\ lastBadgeValue = "PM"
    /\ \E j \in DOMAIN items : items[j].id = nextId - 1 /\ items[j].badge = "PM"

----------------------------------------------------------------------------
(* The keyboard on a loaded timeline: Tab, the arrow keys and Delete
   (timeline.js setupKeyboardListeners), under SpecKeys *)

\* the stores the keyboard is followed on: up to MaxKeyBlocks one-day blocks and at most
\* one milestone, in rows 0 .. 1 on the first two days, as restoreFromLocalStorage
\* leaves them; arrow keys are followed up to day MaxKeyDay and row MaxKeyRow
MaxKeyBlocks == 3
MaxKeyDay    == 1
MaxKeyRow    == 1

KeyCells == { [day |-> d, row |-> r] : d \in 0 .. 1, r \in 0 .. 1 }

KeyBlock(id, cell) ==
    [type |-> "block", id |-> id, startDate |-> Thursday + cell.day, duration |-> 1,
     label |-> "", row |-> cell.row, badge |-> "XD"]

KeyItems ==
    { SortTimelineItems([i \in 1 .. n |-> KeyBlock(i, cells[i])]) :
        n \in 1 .. MaxKeyBlocks, cells \in [1 .. MaxKeyBlocks -> KeyCells] }

KeyMilestoneId == MaxKeyBlocks + 1

KeyAnnotations ==
    { <<>>,
      << [type |-> "annotation", id |-> KeyMilestoneId, date |-> Thursday + 1,
          row |-> 0, text |-> "m"] >> }

InitKeys ==
    /\ tzOffset \in { 0, 1 }
    /\ startDate = Thursday
    /\ zoom = [n |-> 1, d |-> 1]
    /\ items \in KeyItems /\ annotations \in KeyAnnotations /\ offBlocks = <<>>
    /\ nextId = KeyMilestoneId + 1 /\ lastBadgeValue = "XD" /\ dataOk = TRUE
    /\ lastOp = [op |-> "init", known |-> TRUE, changed |-> FALSE]
    /\ ret = "null" /\ log = <<>>
    /\ selectedBlockId = NoId /\ el = Render(items)
    /\ mousedownPosition = Null /\ isDraggingBlock = FALSE
    /\ resizeState = Null /\ dragState = Null /\ timers = NoId
    /\ isDragging = FALSE /\ editing = Null /\ frames = NoId
    /\ selectedAnnotationId = NoId
    /\ hoverPosition = Null /\ annotationHoverIndicator = Null
    /\ tempBlockElement = Null /\ dropZoneShown = FALSE
    /\ listeners = {} /\ flagTimers = 0
    /\ saveTimeout = 0 /\ hasPendingChanges = FALSE
    /\ currentStatusText = "All changes saved to localStorage" /\ savedData = Null
    /\ WalkIdle

\* the comparison of getAllBlocksSorted: by row, then by startDate
RowMajorBefore(a, b) ==
    a.row < b.row \/ (a.row = b.row /\ a.startDate < b.startDate)

RECURSIVE RowMajorInsert(_, _)
RowMajorInsert(sorted, x) ==
    IF sorted = <<>> THEN << x >>
    ELSE IF ~ RowMajorBefore(x, sorted[Len(sorted)]) THEN Append(sorted, x)
    ELSE Append(RowMajorInsert(SubSeq(sorted, 1, Len(sorted) - 1), x), sorted[Len(sorted)])

\* getAllBlocksSorted: the blocks of the timeline, stably sorted
RECURSIVE GetAllBlocksSorted(_)
GetAllBlocksSorted(its) ==
    IF its = <<>> THEN <<>>
    ELSE RowMajorInsert(GetAllBlocksSorted(SubSeq(its, 1, Len(its) - 1)), its[Len(its)])

\* findNextBlock without its last line: no wrap to the first block
FindNextBlockNoWrap(its, currentBlockId) ==
    LET sortedBlocks == GetAllBlocksSorted(its)
        currentIndex == FindIndex(sortedBlocks, currentBlockId)
        currentRow   == sortedBlocks[currentIndex].row
        sameRow == { i \in (currentIndex + 1) .. Len(sortedBlocks) :
                       sortedBlocks[i].row = currentRow }
        below   == { i \in DOMAIN sortedBlocks : sortedBlocks[i].row > currentRow }
    IN  IF sortedBlocks = <<>> THEN NoId
        ELSE IF currentIndex = 0 THEN sortedBlocks[1].id
        ELSE IF sameRow # {}
        THEN sortedBlocks[CHOOSE i \in sameRow : \A j \in sameRow : i <= j].id
        ELSE IF below # {}
        THEN sortedBlocks[CHOOSE i \in below : \A j \in below : i <= j].id
        ELSE currentBlockId

\* findNextBlock: the next block of the row, else the first block of a later row, else
\* the first block; NoId stands for null
FindNextBlock(its, currentBlockId) ==
    LET sortedBlocks == GetAllBlocksSorted(its)
        currentIndex == FindIndex(sortedBlocks, currentBlockId)
        currentRow   == sortedBlocks[currentIndex].row
        sameRow == { i \in (currentIndex + 1) .. Len(sortedBlocks) :
                       sortedBlocks[i].row = currentRow }
        below   == { i \in DOMAIN sortedBlocks : sortedBlocks[i].row > currentRow }
    IN  IF sortedBlocks = <<>> THEN NoId
        ELSE IF currentIndex = 0 THEN sortedBlocks[1].id
        ELSE IF sameRow # {}
        THEN sortedBlocks[CHOOSE i \in sameRow : \A j \in sameRow : i <= j].id
        ELSE IF below # {}
        THEN sortedBlocks[CHOOSE i \in below : \A j \in below : i <= j].id
        ELSE sortedBlocks[1].id

\* the keydown listener returns at once while an input has the focus
KeysHeard == editing = Null

\* a handler that touches no gesture, no editor and no timer
KeyOnly ==
    UNCHANGED <<mousedownPosition, isDraggingBlock, resizeState, dragState, timers,
                isDragging, editing, frames>>

\* the Tab key: selectBlock(findNextBlock(selected)), or the first block
KeyTab ==
    /\ KeysHeard
    /\ LET sortedBlocks == GetAllBlocksSorted(items)
           nextBlockId  == FindNextBlock(items, selectedBlockId)
       IN  IF sortedBlocks = <<>>
           THEN UNCHANGED <<selectedBlockId, selectedAnnotationId>>
           ELSE IF selectedBlockId # NoId
           THEN IF nextBlockId # NoId
                THEN selectedBlockId' = nextBlockId /\ selectedAnnotationId' = NoId
                ELSE UNCHANGED <<selectedBlockId, selectedAnnotationId>>
           ELSE selectedBlockId' = sortedBlocks[1].id /\ selectedAnnotationId' = NoId
    /\ lastOp' = [op |-> "key-tab"] /\ log' = <<>>
    /\ KeyOnly
    /\ UNCHANGED <<storeVars, ret, el, envVars, walkVars, restVars>>

\* moveSelectedItem(deltaDays, deltaRow) for a block or a milestone of the store st
MoveSelectedItem(st, deltaDays, deltaRow) ==
    LET i == FindIndex(st.items, selectedBlockId)
        a == FindIndex(st.annotations, selectedAnnotationId)
    IN  IF selectedBlockId # NoId
        THEN IF i # 0
             THEN LET block == st.items[i]
                      newRelativeDay == Max(0, RelativeDayOf(block) + deltaDays)
                  IN  UpdateItem(st, block.id,
                                 [startDate |-> GetDateFromRelativeDay(newRelativeDay),
                                  row |-> Max(0, block.row + deltaRow)])
             ELSE [st |-> st, ret |-> Null, log |-> <<>>]
        ELSE IF selectedAnnotationId # NoId /\ a # 0
        THEN LET annotation == st.annotations[a]
                 newRelativeDay ==
                     Max(0, GetRelativeDayFromDate(annotation.date) + deltaDays)
             IN  UpdateItem(st, annotation.id,
                            [date |-> GetDateFromRelativeDay(newRelativeDay),
                             row |-> Max(0, annotation.row + deltaRow)])
        ELSE [st |-> st, ret |-> Null, log |-> <<>>]

Arrows == { <<-1, 0>>, <<1, 0>>, <<0, -1>>, <<0, 1>> }

\* the days and rows the arrow keys are followed over
InKeyWindow(st) ==
    /\ \A i \in DOMAIN st.items :
          RelativeDayOf(st.items[i]) <= MaxKeyDay /\ st.items[i].row <= MaxKeyRow
    /\ \A i \in DOMAIN st.annotations :
          /\ GetRelativeDayFromDate(st.annotations[i].date) <= MaxKeyDay
          /\ st.annotations[i].row <= MaxKeyRow

\* an arrow key: moveSelectedItem, then render()
ArrowKey ==
    /\ KeysHeard
    /\ selectedBlockId # NoId \/ selectedAnnotationId # NoId
    /\ \E arrow \in Arrows :
          LET r == MoveSelectedItem(Store, arrow[1], arrow[2])
          IN  /\ InKeyWindow(r.st)
              /\ Stored([op |-> "arrow", deltaDays |-> arrow[1], deltaRow |-> arrow[2]], r)
              /\ el' = IF r.ret # Null THEN Render(r.st.items) ELSE el
    /\ UNCHANGED <<selectedBlockId, dragState, isDragging, editing, frames>>
    /\ UNCHANGED hoverVars /\ Listened

\* the Delete and Backspace keys: deleteSelectedBlock, which then selects the next
\* block in Tab order, or deleteSelectedAnnotation
KeyDelete ==
    /\ KeysHeard
    /\ selectedBlockId # NoId \/ selectedAnnotationId # NoId
    /\ IF selectedBlockId # NoId
       THEN LET nextBlockId == FindNextBlock(items, selectedBlockId)
                r           == RemoveItem(Store, selectedBlockId)
                sortedBlocks == GetAllBlocksSorted(r.st.items)
            IN  /\ Stored([op |-> "key-delete"], r)
                /\ el' = [id \in DOMAIN el \ { selectedBlockId } |-> el[id]]
                /\ selectedBlockId' =
                       IF nextBlockId # NoId /\ nextBlockId # selectedBlockId
                          /\ FindIndex(r.st.items, nextBlockId) # 0
                       THEN nextBlockId
                       ELSE IF sortedBlocks # <<>> THEN sortedBlocks[1].id ELSE NoId
                /\ selectedAnnotationId' = NoId
       ELSE LET r == RemoveAnnotation(Store, selectedAnnotationId)
            IN  /\ Stored([op |-> "key-delete"], r)
                /\ el' = Render(r.st.items)
                /\ selectedAnnotationId' = NoId
                /\ UNCHANGED selectedBlockId
    /\ UNCHANGED <<dragState, isDragging, editing, frames>>
    /\ UNCHANGED seenVars /\ Listened

NextKeys ==
    \/ KeyTab \/ ArrowKey \/ KeyDelete
    \/ ClickBlock \/ ClickAnnotation \/ Blur

SpecKeys == InitKeys /\ [][NextKeys]_vars

\* the block selected after k presses of Tab, the block id being selected before them
RECURSIVE TabFrom(_, _)
TabFrom(id, k) == IF k = 0 THEN id ELSE FindNextBlock(items, TabFrom(id, k - 1))

\* a is nowhere after b in row-major order
RowMajorLeq(a, b) == ~ RowMajorBefore(b, a)

\* C27: Tab goes through the blocks in row-major order (row, then startDate), from the
\* last block of a row to the first of the next occupied row and from the last block
\* to the first: one press never goes back except to wrap from a last block to a first
\* one, and as many presses as there are blocks visit every block once and return.
C27_TabCyclesRowMajor ==
    \A id \in Ids(items) :
        LET n    == Len(items)
            this == BlockIn(items, id)
            next == BlockIn(items, FindNextBlock(items, id))
        IN  /\ \/ RowMajorLeq(this, next)
               \/ /\ \A i \in DOMAIN items : RowMajorLeq(items[i], this)
                  /\ \A i \in DOMAIN items : RowMajorLeq(next, items[i])
            /\ n > 1 => next.id # id
            /\ { TabFrom(id, k) : k \in 0 .. (n - 1) } = Ids(items)
            /\ TabFrom(id, n) = id

\* Tab has just been pressed on three blocks in two rows, and the selection has gone
\* from the last block of row 0 to the first block of row 1
C27_Witness ==
    /\ lastOp.op = "key-tab" /\ Len(items) = 3 /\ selectedBlockId # NoId
    /\ BlockIn(items, selectedBlockId).row = 1
    /\ \E i \in DOMAIN items :
          /\ items[i].row = 0
          /\ FindNextBlock(items, items[i].id) = selectedBlockId
    /\ \A i \in DOMAIN items :
          items[i].row = 1 => RowMajorLeq(BlockIn(items, selectedBlockId), items[i])

\* the milestone with this id in a list of milestones
AnnotationIn(anns, id) == anns[FindIndex(anns, id)]

\* the step is an arrow key pressed while a stored block or milestone is selected
ArrowOnBlock ==
    lastOp'.op = "arrow" /\ selectedBlockId # NoId /\ selectedBlockId \in Ids(items)

ArrowOnMilestone ==
    /\ lastOp'.op = "arrow" /\ selectedBlockId = NoId
    /\ selectedAnnotationId \in Ids(annotations)

\* what an arrow key does to the selected item and to nothing else
ArrowNudged ==
    /\ ArrowOnBlock =>
          LET b0 == BlockIn(items, selectedBlockId)
              b1 == BlockIn(items', selectedBlockId)
          IN  /\ b1 = [b0 EXCEPT !.startDate = b1.startDate, !.row = b1.row]
              /\ RelativeDayOf(b1) = Max(0, RelativeDayOf(b0) + lastOp'.deltaDays)
              /\ b1.row = Max(0, b0.row + lastOp'.deltaRow)
              /\ \A i \in DOMAIN items :
                    items[i].id # b0.id => BlockIn(items', items[i].id) = items[i]
              /\ annotations' = annotations
    /\ ArrowOnMilestone =>
          LET a0 == AnnotationIn(annotations, selectedAnnotationId)
              a1 == AnnotationIn(annotations', selectedAnnotationId)
          IN  /\ a1 = [a0 EXCEPT !.date = a1.date, !.row = a1.row]
              /\ GetRelativeDayFromDate(a1.date) =
                     Max(0, GetRelativeDayFromDate(a0.date) + lastOp'.deltaDays)
              /\ a1.row = Max(0, a0.row + lastOp'.deltaRow)
              /\ items' = items

\* C26: an arrow key moves the selected block or milestone by one day or one row,
\* stopping at day 0 and row 0: its relative day and row stay >= 0, and its duration,
\* label, badge or text, and every other item, are as before.
C26_ArrowNudgeClamped == [][ArrowNudged]_vars

----------------------------------------------------------------------------
(* A resize whose block is deleted before the pointer is released, under SpecAbort:
   the keydown listener is on the document and is heard during a gesture *)

\* one or two blocks and no milestone, in UTC
InitAbort == InitKeys /\ tzOffset = 0 /\ Len(items) <= 2 /\ annotations = <<>>

NextAbort ==
    \/ ClickBlock \/ KeyDelete
    \/ StartResize \/ HandleResizeMove \/ HandleResizeEnd

SpecAbort == InitAbort /\ [][NextAbort]_vars

\* the step is the pointer-up of a resize whose block is no longer in the store
OrphanResizeEnded ==
    /\ resizeState # Null /\ resizeState' = Null
    /\ resizeState.id \notin Ids(items)

\* C23: when the block of a resize in progress has been removed from the store before
\* the pointer is released, the pointer-up applies no part of the gesture: no block's
\* startDate, duration or row changes.
C23_OrphanGestureAppliesNothing ==
    [][OrphanResizeEnded => items' = items]_vars

----------------------------------------------------------------------------
(* A pointer-up that is delivered twice, under SpecRelease *)

\* the handlers' names for a pointer-up that ended a gesture with a commit
ReleaseOps == { "click-create", "drag-create", "handleResizeEnd", "handleDragEnd" }

\* a handler that finds no gesture of its own and returns
ReleasedAgain ==
    /\ lastOp' = [op |-> "release-again", of |-> lastOp.op] /\ log' = <<>>
    /\ UNCHANGED <<storeVars, ret, el, envVars, walkVars, auxVars>>
    /\ UNCHANGED <<selectedBlockId, resizeState, dragState, timers, isDragging, editing,
                   frames>>

\* handleMouseUp once more: no press is recorded, so cleanup() and return
MouseUpAgain ==
    /\ lastOp.op \in { "click-create", "drag-create" }
    /\ mousedownPosition = Null
    /\ Cleanup
    /\ ReleasedAgain

\* handleResizeEnd once more: if (!resizeState) return
HandleResizeEndAgain ==
    /\ lastOp.op = "handleResizeEnd"
    /\ resizeState = Null
    /\ UNCHANGED <<mousedownPosition, isDraggingBlock>>
    /\ ReleasedAgain

\* handleDragEnd once more: if (!dragState) return
HandleDragEndAgain ==
    /\ lastOp.op = "handleDragEnd"
    /\ dragState = Null
    /\ UNCHANGED <<mousedownPosition, isDraggingBlock>>
    /\ ReleasedAgain

NextRelease ==
    \/ MouseDown \/ MouseMove \/ MouseUp \/ TimerSelect
    \/ StartResize \/ HandleResizeEnd
    \/ PointerDownBlock \/ HandleDragEnd
    \/ MouseUpAgain \/ HandleResizeEndAgain \/ HandleDragEndAgain
    \/ Blur

SpecRelease == InitDrag /\ [][NextRelease]_vars

\* C22: a pointer-up that follows the pointer-up of a creation, a move or a resize,
\* with no press in between, leaves the store, the selection and the gesture state as
\* the first one left them.
C22_SecondPointerUpChangesNothing ==
    [][ (lastOp.op \in ReleaseOps /\ lastOp'.op \in ReleaseOps \cup { "release-again" })
          => UNCHANGED <<storeVars, selectedBlockId, selectedAnnotationId,
                         mousedownPosition, isDraggingBlock, resizeState, dragState,
                         isDragging>>
      ]_vars

\* the pointer-up of a creation drag has been delivered a second time
C22_Witness ==
    /\ lastOp.op = "release-again" /\ lastOp.of = "drag-create"
    /\ items # <<>> /\ mousedownPosition = Null

----------------------------------------------------------------------------
(* Claim on the safety limit of pixelToDay, under SpecAxis *)

\* pixelToDay has returned from its safety check: the pixel is neither at a boundary
\* of the last day walked nor inside it, and the day counter has passed the limit
ReturnedByLimit ==
    /\ wPc = "done" /\ wDay + 1 > DayCap
    /\ ~ Near(wPixel, wAcc) /\ ~ Near(wPixel, wAcc + GetDayWidth(wDay))
    /\ ~ InsideDay(wPixel, wAcc, wAcc + GetDayWidth(wDay))

\* C24: pixelToDay ends for every pixel, and a walk that passes the day limit is
\* reported as a violated invariant: it never ends by returning a day number.
C24_LimitNeverReturnedAsDay == ~ ReturnedByLimit

----------------------------------------------------------------------------
(* The milestone affordance: setupAnnotationHover, under SpecHover.  The pointer is
   followed at points 2 px right of a gridline and 2 px below a row's blocks, which
   lie on the affordance shown for that gridline and row. *)

HoverXs == { DayToPixel(c) + Px(2) : c \in 0 .. MaxCol }
HoverYs == { RowTop(r) + BlockHeight + 2 : r \in 0 .. MaxRow }

\* calculateGridlineIntersection(x, y)
CalculateGridlineIntersection(x, y) ==
    LET relativeY     == y - Padding
        integerRow    == relativeY \div RowSpacing
        positionInRow == relativeY - integerRow * RowSpacing
        rowAbove      == integerRow
        rowBelow      == IF positionInRow = 0 THEN integerRow ELSE integerRow + 1
        distanceToAbove == Abs(y - (Padding + rowAbove * RowSpacing))
        distanceToBelow == Abs(y - (Padding + rowBelow * RowSpacing))
    IN  [day |-> PixelToDay(x),
         row |-> IF integerRow < 0 THEN 0
                 ELSE IF positionInRow >= BlockHeight THEN integerRow
                 ELSE IF distanceToAbove < distanceToBelow THEN rowAbove
                 ELSE rowBelow]

\* a handler of the affordance that calls neither the store nor render()
HoverOnly ==
    /\ lastOp' = [op |-> "pointer"] /\ log' = <<>>
    /\ UNCHANGED <<storeVars, ret, envVars, uiVars, walkVars, saveVars, selectedAnnotationId>>
    /\ UNCHANGED gestVars

\* container mousemove: the affordance is shown at the intersection the pointer
\* resolves to, unless a milestone is there
HoverMove ==
    /\ ~ isDraggingBlock /\ editing = Null /\ frames = NoId
    /\ \E x \in HoverXs, y \in HoverYs :
          LET intersection == CalculateGridlineIntersection(x, y)
          IN  /\ hoverPosition' = [x |-> x, y |-> y]
              /\ annotationHoverIndicator' =
                    IF ~ HasAnnotation(Store, GetDateFromRelativeDay(intersection.day),
                                       intersection.row)
                    THEN [day |-> intersection.day, row |-> intersection.row,
                          shown |-> TRUE]
                    ELSE Hidden(annotationHoverIndicator)
    /\ HoverOnly

\* container mouseleave
MouseLeave ==
    /\ hoverPosition # Null /\ editing = Null /\ frames = NoId
    /\ hoverPosition' = Null
    /\ annotationHoverIndicator' = Hidden(annotationHoverIndicator)
    /\ HoverOnly

\* container click on the affordance, where the pointer is
ClickIndicator ==
    /\ editing = Null /\ frames = NoId
    /\ hoverPosition # Null
    /\ annotationHoverIndicator # Null /\ annotationHoverIndicator.shown
    /\ Len(annotations) < MaxAnn /\ nextId <= MaxId
    /\ LET intersection == CalculateGridlineIntersection(hoverPosition.x, hoverPosition.y)
           r == AddAnnotationAtDay(Store, intersection.day, intersection.row, "")
       IN  /\ Stored([op |-> "click-indicator", id |-> r.ret.id], r)
           /\ el' = Render(r.st.items)
           /\ frames' = r.ret.id
    /\ annotationHoverIndicator' = Hidden(annotationHoverIndicator)
    /\ UNCHANGED <<selectedBlockId, dragState, isDragging, editing>>
    /\ UNCHANGED <<hoverPosition, selectedAnnotationId, gestVars>> /\ Listened

\* the second animation frame after the click: annotation.startEditing()
StartEditingCreated ==
    /\ frames # NoId
    /\ editing' = IF frames \in Ids(annotations)
                  THEN [id |-> frames, value |-> AnnotationIn(annotations, frames).text]
                  ELSE editing
    /\ frames' = NoId
    /\ lastOp' = [op |-> "pointer"] /\ log' = <<>>
    /\ UNCHANGED <<storeVars, ret, el, envVars, walkVars, auxVars>>
    /\ UNCHANGED <<selectedBlockId, mousedownPosition, isDraggingBlock, resizeState,
                   timers, dragState, isDragging>>

NextHover ==
    \/ HoverMove \/ MouseLeave \/ ClickIndicator \/ StartEditingCreated
    \/ TypeText \/ Blur

SpecHover == Init /\ [][NextHover]_vars

\* C29: a click on the affordance creates exactly one milestone, with no text, at the
\* day and row at which the affordance is shown, and its editor is then opened.
C29_MilestoneWhereAffordanceShown ==
    [][ lastOp'.op = "click-indicator" =>
          /\ Len(annotations') = Len(annotations) + 1
          /\ SubSeq(annotations', 1, Len(annotations)) = annotations
          /\ LET created == annotations'[Len(annotations')]
             IN  /\ created.text = ""
                 /\ GetRelativeDayFromDate(created.date) = annotationHoverIndicator.day
                 /\ created.row = annotationHoverIndicator.row
                 /\ frames' = created.id
      ]_vars

----------------------------------------------------------------------------
(* Auto-save: auto-save.js, under SpecSave.  The page was opened on a saved copy
   (restoreFromLocalStorage loaded the store from it), and localStorage takes what is
   written to it. *)

SavedText == "All changes saved to localStorage"

\* toJSON: JSON.stringify(this.data), the store without its id counter
ToJSON ==
    [items |-> items, annotations |-> annotations, offBlocks |-> offBlocks,
     lastBadgeValue |-> lastBadgeValue, startDate |-> startDate, zoom |-> zoom]

InitSave ==
    /\ tzOffset \in { 0, 1 }
    /\ startDate = Thursday
    /\ zoom = [n |-> 1, d |-> 1]
    /\ StoreIdle /\ WalkIdle
    /\ selectedBlockId = NoId /\ el = Render(items)
    /\ mousedownPosition = Null /\ isDraggingBlock = FALSE /\ resizeState = Null
    /\ dragState = Null /\ timers = NoId /\ isDragging = FALSE
    /\ editing = Null /\ frames = NoId
    /\ selectedAnnotationId = NoId /\ hoverPosition = Null
    /\ annotationHoverIndicator = Null
    /\ tempBlockElement = Null /\ dropZoneShown = FALSE
    /\ listeners = {} /\ flagTimers = 0
    /\ saveTimeout = 0 /\ hasPendingChanges = FALSE
    /\ currentStatusText = SavedText
    /\ savedData = ToJSON

\* the Clear button
ClearClick ==
    /\ NoGesture
    /\ items' = <<>> /\ annotations' = <<>>
    /\ selectedBlockId' = NoId /\ selectedAnnotationId' = NoId
    /\ el' = Render(<<>>)
    /\ lastOp' = [op |-> "clear"] /\ log' = <<>>
    /\ UNCHANGED <<offBlocks, nextId, lastBadgeValue, dataOk, ret, envVars, walkVars>>
    /\ UNCHANGED <<mousedownPosition, isDraggingBlock, resizeState, dragState, timers,
                   isDragging, editing, frames>>
    /\ UNCHANGED seenVars /\ Listened

\* the timer of scheduleSave fires: saveToLocalStorage
SaveToLocalStorage ==
    /\ saveTimeout > 0
    /\ savedData' = ToJSON
    /\ hasPendingChanges' = FALSE
    /\ currentStatusText' = SavedText
    /\ saveTimeout' = saveTimeout - 1
    /\ lastOp' = [op |-> "save"] /\ log' = <<>>
    /\ UNCHANGED <<storeVars, ret, envVars, uiVars, walkVars, hoverVars>>

NextSave ==
    \/ KeyN \/ ClickBlock \/ KeyPlus \/ KeyMinus \/ KeyDelete
    \/ ClearClick \/ SaveToLocalStorage

\* a scheduled save is not put off for ever: the timer runs SAVE_DELAY after the last
\* change
SpecSave == InitSave /\ [][NextSave]_vars /\ WF_vars(SaveToLocalStorage)

\* C28: the status label reads 'All changes saved to localStorage' only while the
\* saved copy equals the store's data, and once the data stop changing the saved copy
\* becomes, and stays, equal to them.
C28_SavedWhenChangesStop ==
    /\ [](currentStatusText = SavedText => savedData = ToJSON)
    /\ (<>[][ToJSON' = ToJSON]_vars) => <>[](savedData = ToJSON)

----------------------------------------------------------------------------
(* The pixel arithmetic as JavaScript performs it, under SpecFloat.  A Number is an
   IEEE 754 double; one between 2^-6 and 2^14 is a whole multiple of 2^-60, and is
   kept here as that multiple, written in limbs of 15 bits, least significant first.
   Under SpecFloat the variable zoom holds the double of Timeline.zoom in this form,
   wOut and wAcc the two widths compared. *)

LimbBits    == 15
LimbBase    == 32768
FracLimbs   == 4
Significand == 53

Limb(N, j) == IF j \in DOMAIN N THEN N[j] ELSE 0

\* without its leading zero limbs
RECURSIVE Norm(_)
Norm(N) == IF N # <<>> /\ N[Len(N)] = 0 THEN Norm(SubSeq(N, 1, Len(N) - 1)) ELSE N

RECURSIVE BigAddFrom(_, _, _, _)
BigAddFrom(A, B, j, carry) ==
    IF j > Max(Len(A), Len(B)) THEN << carry >>
    ELSE LET s == Limb(A, j) + Limb(B, j) + carry
         IN  << s % LimbBase >> \o BigAddFrom(A, B, j + 1, s \div LimbBase)

BigAdd(A, B) == Norm(BigAddFrom(A, B, 1, 0))

\* A - B for A >= B
RECURSIVE BigSubFrom(_, _, _, _)
BigSubFrom(A, B, j, borrow) ==
    IF j > Len(A) THEN <<>>
    ELSE LET s == Limb(A, j) - Limb(B, j) - borrow
         IN  << (s + LimbBase) % LimbBase >>
             \o BigSubFrom(A, B, j + 1, IF s < 0 THEN 1 ELSE 0)

BigSub(A, B) == Norm(BigSubFrom(A, B, 1, 0))

BigLess(A, B) ==
    LET differ == { j \in 1 .. Max(Len(A), Len(B)) : Limb(A, j) # Limb(B, j) }
    IN  /\ differ # {}
        /\ LET top == CHOOSE j \in differ : \A i \in differ : i <= j
           IN  Limb(A, top) < Limb(B, top)

\* N * base^n
Shifted(N, n) == [i \in 1 .. n |-> 0] \o N

RECURSIVE BigMulLimbFrom(_, _, _, _)
BigMulLimbFrom(A, m, j, carry) ==
    IF j > Len(A) THEN << carry >>
    ELSE LET p == A[j] * m + carry
         IN  << p % LimbBase >> \o BigMulLimbFrom(A, m, j + 1, p \div LimbBase)

RECURSIVE BigMulFrom(_, _, _)
BigMulFrom(A, B, j) ==
    IF j > Len(B) THEN <<>>
    ELSE BigAdd(Shifted(BigMulLimbFrom(A, B[j], 1, 0), j - 1), BigMulFrom(A, B, j + 1))

BigMul(A, B) == Norm(BigMulFrom(A, B, 1))

\* the quotient and the remainder of N by a small d, from the top limb down
RECURSIVE BigDivFrom(_, _, _, _)
BigDivFrom(N, d, j, rem) ==
    IF j = 0 THEN [q |-> <<>>, r |-> rem]
    ELSE LET cur  == rem * LimbBase + N[j]
             rest == BigDivFrom(N, d, j - 1, cur % d)
         IN  [q |-> Append(rest.q, cur \div d), r |-> rest.r]

BitAt(N, i) == (Limb(N, i \div LimbBits + 1) \div (2 ^ (i % LimbBits))) % 2

BitLen(N) ==
    LET set == { i \in 0 .. (LimbBits * Len(N) - 1) : BitAt(N, i) = 1 }
    IN  IF set = {} THEN 0 ELSE 1 + CHOOSE i \in set : \A j \in set : j <= i

\* N with its k lowest bits cleared
Truncate(N, k) ==
    [j \in DOMAIN N |->
        IF LimbBits * j <= k THEN 0
        ELSE IF LimbBits * (j - 1) >= k THEN N[j]
        ELSE LET b == k - LimbBits * (j - 1) IN (N[j] \div (2 ^ b)) * (2 ^ b)]

Pow2(k) == Shifted(<< 2 ^ (k % LimbBits) >>, k \div LimbBits)

\* the rounding of every arithmetic result: to 53 significant bits, to the nearest, a
\* tie to the even one
RoundDouble(N) ==
    LET k == BitLen(N) - Significand
    IN  IF k <= 0 THEN Norm(N)
        ELSE LET half    == BitAt(N, k - 1) = 1
                 sticky  == \E i \in 0 .. (k - 2) : BitAt(N, i) = 1
                 odd     == BitAt(N, k) = 1
             IN  IF half /\ (sticky \/ odd)
                 THEN BigAdd(Truncate(N, k), Pow2(k))
                 ELSE Norm(Truncate(N, k))

\* an integer a loop has summed
FromInt(n) == Norm(Shifted(<< n >>, FracLimbs))

\* a decimal literal num/den of the source: the double nearest to it
Literal(num, den) ==
    LET extra   == 2
        divided == BigDivFrom(Shifted(<< num >>, FracLimbs + extra), den,
                              FracLimbs + extra + 1, 0)
        sticky  == IF divided.r = 0 THEN divided.q
                   ELSE [divided.q EXCEPT ![1] = (divided.q[1] \div 2) * 2 + 1]
        rounded == RoundDouble(sticky)
    IN  SubSeq(rounded, extra + 1, Len(rounded))

\* x * y
FMul(X, Y) ==
    LET rounded == RoundDouble(BigMul(X, Y))
    IN  IF rounded = <<>> THEN <<>> ELSE SubSeq(rounded, FracLimbs + 1, Len(rounded))

\* x - y for x >= y
FSub(X, Y) == RoundDouble(BigSub(X, Y))

\* Math.max(0.25, Math.min(3.0, zoom))
ClampZoom(Z) ==
    LET hi == FromInt(3)
        lo == Literal(25, 100)
        m  == IF BigLess(hi, Z) THEN hi ELSE Z
    IN  IF BigLess(m, lo) THEN lo ELSE m

\* dayToPixel(day)
DayToPixelDouble(day) == FMul(FromInt(SumWidths(0, day)), zoom)

\* dayToPixelForDuration ignoring where the span starts
DayToPixelForDurationFromZero(startDay, duration) ==
    FMul(FromInt(SumWidths(0, duration)), zoom)

\* dayToPixelForDuration(startDay, duration)
DayToPixelForDurationDouble(startDay, duration) ==
    FMul(FromInt(SumWidths(startDay, duration)), zoom)

MaxSpanDay == 7

InitFloat ==
    /\ tzOffset = 0
    /\ startDate \in StartDates
    /\ zoom = FromInt(1)
    /\ StoreIdle /\ UiIdle
    /\ wPc = "idle" /\ wIn = 0
    /\ wI = 0 /\ wAcc = 0 /\ wDay = 0 /\ wPixel = 0 /\ wOut = 0

\* the zoom-in button: setZoom(timeline.zoom * 1.2)
ZoomIn ==
    /\ zoom' = ClampZoom(FMul(zoom, Literal(12, 10)))
    /\ zoom' # zoom
    /\ wPc' = "idle" /\ wIn' = 0 /\ wOut' = 0 /\ wAcc' = 0
    /\ UNCHANGED <<tzOffset, startDate, wI, wDay, wPixel>>
    /\ UNCHANGED <<storeVars, callVars, uiVars, auxVars>>

\* dayToPixelForDuration(startDay, duration) in wOut,
\* dayToPixel(startDay + duration) - dayToPixel(startDay) in wAcc
ApplyDuration ==
    /\ wPc = "idle"
    /\ \E startDay \in 0 .. MaxSpanDay, duration \in 0 .. MaxSpanDay :
          /\ wIn' = [startDay |-> startDay, duration |-> duration]
          /\ wOut' = DayToPixelForDurationDouble(startDay, duration)
          /\ wAcc' = FSub(DayToPixelDouble(startDay + duration), DayToPixelDouble(startDay))
    /\ wPc' = "dayToPixelForDuration"
    /\ UNCHANGED <<wI, wDay, wPixel>>
    /\ UNCHANGED <<envVars, storeVars, callVars, uiVars, auxVars>>

NextFloat == ZoomIn \/ ApplyDuration

SpecFloat == InitFloat /\ [][NextFloat]_vars

\* the distance of two doubles is below 0.001, the tolerance of pixelToDay
WithinTolerance(X, Y) ==
    LET distance == IF BigLess(X, Y) THEN BigSub(Y, X) ELSE BigSub(X, Y)
    IN  BigLess(BigMulLimbFrom(distance, 1000, 1, 0), FromInt(1))

----------------------------------------------------------------------------
(* Claims on the pointer-up of a creation gesture, under SpecRelease *)

\* the block of a list that another list does not have
CreatedIn(after, before) ==
    after[CHOOSE i \in DOMAIN after : after[i].id \notin Ids(before)]

\* what handleMouseUp stores for a drag released at x
DragCreateAt(upX) ==
    LET startX       == mousedownPosition.x
        snappedLeft  == SnapPixelToGrid(Min(startX, upX))
        snappedRight == SnapPixelToGridPreferRight(Max(startX, upX))
        width        == Max(DayToPixel(1), snappedRight - snappedLeft)
        startDay     == PixelToDay(snappedLeft)
        endDay       == PixelToDay(snappedLeft + width)
    IN  AddBlockAtDay(Store, startDay, ClampDuration(endDay, startDay), "",
                      RowOf(mousedownPosition.y))

\* the step is the pointer-up of a creation drag, released where the pointer was last
\* seen, with the preview on screen
DragReleasedAtPointer ==
    /\ lastOp'.op = "drag-create"
    /\ tempBlockElement # Null
    /\ items' = DragCreateAt(mousedownPosition.pointerX).st.items

\* C32: the block committed by the pointer-up of a creation drag covers the span the
\* preview shows at that pointer position: it starts at the preview's left gridline
\* and is as wide as the preview.
C32_CommitIsPreview ==
    [][ DragReleasedAtPointer =>
          LET block == CreatedIn(items', items)
          IN  /\ DayToPixel(RelativeDayOf(block)) = tempBlockElement.left
              /\ DayToPixelForDuration(RelativeDayOf(block), block.duration)
                    = tempBlockElement.width
      ]_vars

\* the durations a resize can be compared with
MaxResizeDuration == 12

\* the right gridline of a block of that duration
RightGridline(startDay, duration) == DayToPixel(startDay + duration)

\* the duration of at least one day whose right gridline is nearest to the edge, the
\* longer one on an exact tie
IsNearestDuration(startDay, edge, duration) ==
    /\ duration >= 1
    /\ \A other \in 1..MaxResizeDuration :
          LET mine   == Abs(RightGridline(startDay, duration) - edge)
              theirs == Abs(RightGridline(startDay, other) - edge)
          IN  mine < theirs \/ (mine = theirs /\ duration >= other)

\* C33: the pointer-up of a resize commits the duration whose right gridline is
\* nearest to the released trailing edge (the right one on an exact tie), floored
\* at one day.
C33_ResizeSnapsToNearest ==
    [][ (resizeState # Null /\ lastOp'.op = "handleResizeEnd") =>
          LET rs    == resizeState
              edge  == rs.initialLeft + rs.initialWidth + lastOp'.deltaX
              block == items'[FindIndex(items', rs.id)]
          IN  IsNearestDuration(rs.initialRelativeDay, edge, block.duration)
      ]_vars

\* the blocks the gestures are followed over
MaxGestureBlocks == 1

\* the three pointer gestures: creation on the empty track, resize and move
NextGesture ==
    /\ \/ MouseDown \/ MouseMove \/ MouseUp \/ TimerSelect
       \/ StartResize \/ HandleResizeEnd
       \/ PointerDownBlock \/ HandleDragMove \/ HandleDragEnd \/ FlagTimer
       \/ Blur
    /\ Len(items') <= MaxGestureBlocks

SpecGesture == InitDrag /\ [][NextGesture]_vars

\* the pointer-up handlers that end a gesture
GestureEnd == MouseUp \/ HandleDragEnd \/ HandleResizeEnd

\* nothing of a gesture is left
GestureDiscarded ==
    /\ tempBlockElement = Null
    /\ mousedownPosition = Null /\ dragState = Null /\ resizeState = Null
    /\ ~ dropZoneShown
    /\ listeners = {}

\* C36: the pointer-up that ends a creation, a move or a resize, whether it commits,
\* aborts or deletes, leaves no preview element, no recorded pointer-down, no drag
\* or resize record, no active drop-zone indicator and no move or up listener on
\* the document.
C36_GestureEndDiscardsAll ==
    [][GestureEnd => GestureDiscarded']_vars

\* a block has just been dropped outside the track, with the drop zone of the move
\* before it no longer shown
C36_Witness ==
    /\ lastOp.op = "handleDragEnd" /\ lastOp.isOutside /\ lastOp.isDragging
    /\ GestureDiscarded

----------------------------------------------------------------------------
(* The row of calculateGridlineIntersection at two heights of one column,   *)
(* under SpecRow                                                            *)

\* the heights compared: every RowStep pixels from the top of the track to below
\* the second row
RowStep == 4
MaxRowStep == 70
RowYs == { RowStep * k : k \in 0 .. MaxRowStep }
RowXs == { Px(10), Px(90), Px(170) }

InitRow ==
    /\ tzOffset = 0
    /\ startDate = Thursday
    /\ zoom = [n |-> 1, d |-> 1]
    /\ StoreIdle /\ UiIdle /\ WalkIdle

\* calculateGridlineIntersection(x, y) at a first position
ApplyIntersection ==
    /\ wPc = "idle"
    /\ \E x \in RowXs, y \in RowYs :
          /\ wIn' = [x |-> x, y |-> y]
          /\ wOut' = CalculateGridlineIntersection(x, y).row
    /\ wPc' = "above"
    /\ UNCHANGED <<envVars, storeVars, callVars, uiVars, auxVars, wI, wAcc, wDay, wPixel>>

\* calculateGridlineIntersection(x, y) at a position below the first one; wAcc keeps
\* the first row
ApplyIntersectionBelow ==
    /\ wPc = "above"
    /\ \E y \in RowYs :
          /\ y > wIn.y
          /\ wIn' = [x |-> wIn.x, y |-> y]
          /\ wOut' = CalculateGridlineIntersection(wIn.x, y).row
    /\ wAcc' = wOut
    /\ wPc' = "below"
    /\ UNCHANGED <<envVars, storeVars, callVars, uiVars, auxVars, wI, wDay, wPixel>>

NextRow == ApplyIntersection \/ ApplyIntersectionBelow

SpecRow == InitRow /\ [][NextRow]_vars

\* C38: for a fixed x, the row of calculateGridlineIntersection(x, y) at a lower
\* position is never smaller than the row at a position above it.
C38_RowNonDecreasing ==
    wPc = "below" => wAcc <= wOut

----------------------------------------------------------------------------
(* The selection and the drag flag, under SpecDrag *)

\* C39: the selected block is null or a block of the store, and the selected
\* milestone is null or a milestone of the store, after every handler.
C39_SelectionNeverDangles ==
    /\ selectedBlockId = NoId \/ selectedBlockId \in Ids(items)
    /\ selectedAnnotationId = NoId \/ selectedAnnotationId \in Ids(annotations)

\* a timer callback runs while a move is in progress
TimerDuringDrag == dragState # Null /\ dragState' # Null /\ flagTimers' < flagTimers

\* C40: isCurrentlyDragging() is false whenever no move gesture is in progress, and
\* while a move that has passed the threshold is in progress no timer of an earlier
\* gesture resets it.
C40_DraggingOnlyDuringDrag ==
    /\ [](isDragging => dragState # Null)
    /\ [][(TimerDuringDrag /\ isDragging) => isDragging']_vars

----------------------------------------------------------------------------
(* The debounce of the auto-save, under SpecSave.  A timer of scheduleSave runs
   SAVE_DELAY after it was set unless it is cleared before; the steps are not timed. *)

\* the step is a write to localStorage
Written == savedData' # savedData \/ lastOp'.op = "save"

----------------------------------------------------------------------------
(* The click on the empty track, under Spec *)

\* the step is the pointer-up of a click on the empty track that reached the store
ClickCreated == mousedownPosition # Null /\ lastOp'.op = "click-create"

\* the step is the callback of the timer a creation has set
TimerRan == timers # NoId /\ timers' = NoId

\* C34: a click on the empty track adds exactly one block, of duration 1, on the day
\* pixelToDay gives for the x of the pointer-down and in the row
\* max(0, floor((y - 32) / (blockHeight + annotationSpace))); the timer it sets then
\* selects that block and opens the editing of its label.
C34_ClickCreatesOneDayBlock ==
    [][ /\ ClickCreated =>
             LET block == CreatedIn(items', items)
             IN  /\ Len(items') = Len(items) + 1
                 /\ \A i \in DOMAIN items : \E j \in DOMAIN items' : items'[j] = items[i]
                 /\ block.duration = 1
                 /\ RelativeDayOf(block) = PixelToDay(mousedownPosition.x)
                 /\ block.row = Max(0, (mousedownPosition.y - Padding)
                                          \div (BlockHeight + AnnotationSpace))
                 /\ timers' = block.id
        /\ TimerRan =>
             /\ selectedBlockId' = timers
             /\ editing' # Null /\ editing'.id = timers
      ]_vars

----------------------------------------------------------------------------
(* Escape in an open input, under SpecDrag *)

\* the step is the Escape key in the open input
EscapePressed ==
    /\ editing # Null
    /\ lastOp'.op = "edit-end" /\ lastOp'.key = "Escape"

\* the label or text the store has for the block or milestone being edited
StoredText ==
    IF editing.id \in Ids(items) THEN items[FindIndex(items, editing.id)].label
    ELSE annotations[FindIndex(annotations, editing.id)].text

\* C37: Escape in the input of a block or of a milestone commits nothing typed: the
\* store keeps the label or text it had when that is not empty, and no longer has
\* the block or milestone when it is empty.
C37_EscapeCancelsEdit ==
    [][ EscapePressed =>
          IF Trim(StoredText) # ""
          THEN items' = items /\ annotations' = annotations
          ELSE editing.id \notin (Ids(items') \cup Ids(annotations'))
      ]_vars

=============================================================================
